---- MODULE Spec2Model ----
(***************************************************************************)
(* Model of the O2 Control scheduler core (core/scheduler.go).             *)
(*                                                                         *)
(* Spec           the OFFERS event handler (resourceOffers) with the       *)
(*                single-slot channels it talks to, one action per step    *)
(*                of the handler                                           *)
(* SpecReplay     the same handler, with one finished run kept to compare  *)
(*                a later run on the same inputs with                      *)
(* SpecUpdate     the UPDATE event handler (statusUpdate), the goroutines  *)
(*                it spawns and the Task Manager's task records            *)
(* SpecController the subscribe loop of runSchedulerController, the        *)
(*                identity store and the revive loop                       *)
(* SpecMessage    the MESSAGE event handler (incomingMessageHandler,       *)
(*                handleDeviceEvent) and the environment                   *)
(* SpecServant    the MESSAGE event handler feeding the Command Servant    *)
(*                                                                         *)
(* Port resources are Mesos range lists: sorted sequences of <<Begin,End>> *)
(* pairs, as in mesos.Ranges.                                              *)
(***************************************************************************)
EXTENDS Integers, Sequences, FiniteSets, TLC

\* ------------------------------------------------------------------ bounds
MaxOffers == 2
MaxDescriptors == 2

\* ------------------------------------------------------- program constants
\* availPorts.Remove(mesos.Value_Range{Begin: 0, End: 8999})
BindPortFloorEnd == 8999
\* availPorts.Remove(mesos.Value_Range{Begin: 0, End: 29999})
ControlPortFloorEnd == 29999
\* "The control port range starts at 47101" (comment above the control port claim)
ControlPortRangeStart == 47101

\* --------------------------------------------------------------- utilities
Range(s) == {s[k] : k \in 1..Len(s)}

SeqsUpTo(S, lo, hi) == UNION {[1..n -> S] : n \in lo..hi}

RemoveAtMutNoRemoval(s, k) == s

\* descriptorsToDeploy = append(descriptorsToDeploy[:i], descriptorsToDeploy[i+1:]...)
RemoveAt(s, k) == SubSeq(s, 1, k - 1) \o SubSeq(s, k + 1, Len(s))

\* ------------------------------------------------------- mesos range lists
\* Ranges.Remove(Value_Range{b, e}): the ports of rs outside b..e
RECURSIVE RangesRemove(_, _, _)
RangesRemove(rs, b, e) ==
    IF rs = <<>> THEN <<>>
    ELSE LET r     == Head(rs)
             left  == IF r[1] < b
                      THEN << <<r[1], IF r[2] < b THEN r[2] ELSE b - 1>> >>
                      ELSE <<>>
             right == IF r[2] > e
                      THEN << <<IF r[1] > e THEN r[1] ELSE e + 1, r[2]>> >>
                      ELSE <<>>
         IN  left \o right \o RangesRemove(Tail(rs), b, e)

RangesMinMutMax(rs) == rs[Len(rs)][2]

\* Ranges.Min(): rs[0].Begin, defined on non-empty range lists only
RangesMin(rs) == rs[1][1]

RangesContain(rs, p) == \E k \in 1..Len(rs) : rs[k][1] <= p /\ p <= rs[k][2]

SubtractPortMutKeep(rem, port) == rem

\* remainingResources.Subtract(ports:[port-port]); a ports resource that
\* becomes empty disappears from the resource list (rs = <<>>)
SubtractPort(rem, port) == [rem EXCEPT !.ports = RangesRemove(@, port, port)]

\* resources.Ports(remainingResources...): ok iff a ports resource is left
PortsOk(rem) == rem.ports # <<>>

\* ------------------------------------------------------------ task classes
\* Resource demands per task class (task.Wants): Cpu, Memory (MiB),
\* StaticPorts and the named dynamic ports BindPorts.
Classes ==
    [ readout |-> [Cpu |-> 2, Memory |-> 1024, StaticPorts |-> {},
                   BindPorts |-> <<"data">>],
      stfb    |-> [Cpu |-> 1, Memory |-> 256, StaticPorts |-> {},
                   BindPorts |-> <<"data", "mon">>],
      qc      |-> [Cpu |-> 3, Memory |-> 256, StaticPorts |-> {10000},
                   BindPorts |-> <<>>],
      ctl     |-> [Cpu |-> 1, Memory |-> 256, StaticPorts |-> {},
                   BindPorts |-> <<>>] ]

NilWants == [nil |-> TRUE]

\* state.taskman.GetWantsForDescriptor(descriptor): nil for an unknown class
GetWantsForDescriptor(d) ==
    IF d.class \in DOMAIN Classes THEN Classes[d.class] ELSE NilWants

IsNil(w) == "nil" \in DOMAIN w

\* state.executor.Resources, added to every launch request
executorResources == [cpus |-> 1, mem |-> 64]

\* The descriptors a deployment can ask for.  consistent = FALSE makes
\* NewTaskForMesosOffer return nil; serializable = FALSE makes json.Marshal
\* of the task command fail.
DescriptorPool ==
    { [class |-> "readout", constraints |-> {}, consistent |-> TRUE, serializable |-> TRUE],
      [class |-> "stfb", constraints |-> {}, consistent |-> TRUE, serializable |-> TRUE],
      [class |-> "qc", constraints |-> {<<"role", "FLP">>}, consistent |-> TRUE, serializable |-> TRUE],
      [class |-> "ctl", constraints |-> {}, consistent |-> FALSE, serializable |-> TRUE],
      [class |-> "ctl", constraints |-> {}, consistent |-> TRUE, serializable |-> FALSE],
      [class |-> "ghost", constraints |-> {}, consistent |-> TRUE, serializable |-> TRUE] }

\* The offers an OFFERS event can carry (one offer per host).
OfferPool ==
    { [agentId |-> "A", attributes |-> {<<"role", "FLP">>}, cpus |-> 4, mem |-> 8192,
       ports |-> << <<10000, 11000>>, <<47101, 47200>> >>],
      [agentId |-> "B", attributes |-> {<<"role", "EPN">>}, cpus |-> 4, mem |-> 8192,
       ports |-> << <<10000, 10000>>, <<47101, 47200>> >>],
      [agentId |-> "C", attributes |-> {<<"role", "FLP">>}, cpus |-> 4, mem |-> 8192,
       ports |-> << <<8000, 8000>>, <<10000, 10000>>, <<31000, 31000>> >>],
      [agentId |-> "D", attributes |-> {}, cpus |-> 3, mem |-> 2048,
       ports |-> << <<47101, 47102>> >>] }

\* An offer of the event: the pool entry plus its offer ID
MkOffer(k, o) ==
    [id |-> k, agentId |-> o.agentId, attributes |-> o.attributes,
     resources |-> [cpus |-> o.cpus, mem |-> o.mem, ports |-> o.ports]]

\* A descriptor of a deployment: the pool entry plus its identity
MkDescriptor(k, d) ==
    [id |-> k, class |-> d.class, constraints |-> d.constraints,
     consistent |-> d.consistent, serializable |-> d.serializable]

\* the tasks the UPDATE events are about
TaskIds == {"t1", "t2"}

\* how many transition commands the Command Servant issues
MaxCommands == 1

\* a MESSAGE as the handler reads it: what can be parsed of it, and the
\* fields of the parsed payload
Message(kind) ==
    [kind |-> kind, executor |-> "e1", evType |-> "-", task |-> "-", id |-> 0,
     currentState |-> "-"]

NoMessage == Message("none")

\* no run of the OFFERS handler was recorded
NoRun == [recorded |-> FALSE, offers |-> <<>>, taken |-> <<>>, assignment |-> {},
          declined |-> {}]

\* an envelope of the Command Servant that was not issued yet
NoCommand == [status |-> "unissued", targets |-> {}, resolved |-> {}]

\* The goroutines that call the repository manager
Callers == {"c1", "c2"}

\* a caller that is inside no call; a caller that has made no call yet
NoCall == [op |-> "none", arg |-> 0]
NoResult == [caller |-> "none", op |-> "none", value |-> "none"]

\* The goroutines that send revive requests on state.reviveOffersTrg
Requesters == {"r1", "r2"}

\* ------------------------------------------------------------------- state
VARIABLES
    tasksToDeploy,       \* state.tasksToDeploy: the single-slot channel (<<>> = empty)
    pc,                  \* position of the OFFERS handler
    offers,              \* e.GetOffers().GetOffers()
    descriptorsToDeploy, \* the handler's pending list
    taken,               \* the list as it was received from the channel in this cycle
    offerIDsToDecline,   \* the decline-set
    tasksDeployed,       \* task.DeploymentMap of the cycle: {<<task id, descriptor id>>}
    oi,                  \* index of the offer being processed
    i,                   \* index of the descriptor walk
    remainingResources,  \* of the current offer
    tasks,               \* []mesos.TaskInfo of the current offer
    tasksDeployedForCurrentOffer,
    mutex,               \* the state mutex: "free" or "held"
    tasksCreated,        \* tasks constructed by the Task Manager in this cycle
    calls,               \* calls issued to the outer manager in this cycle
    resourceOffersDone,  \* what the final notification did
    leftover             \* ids of the descriptors the previous cycle left unlaunched,
                         \* kept until the sender deploys again or the prologue of
                         \* the next cycle has run

\* UPDATE events, the goroutines the UPDATE handler spawns, the Task Manager
VARIABLES
    updDelivered,        \* the UPDATE events in the order the outer manager delivered them
    updPending,          \* spawned "go state.taskman.UpdateTaskStatus(&s)", not yet run
    updApplied,          \* indexes of updDelivered in the order UpdateTaskStatus ran
    taskState,           \* the Task Manager's last-known lifecycle state of each task
    tasksFinished        \* state.tasksFinished

\* the variables of the OFFERS handler, the state mutex apart
offersVars == <<tasksToDeploy, pc, offers, descriptorsToDeploy, taken, offerIDsToDecline,
                tasksDeployed, oi, i, remainingResources, tasks,
                tasksDeployedForCurrentOffer, tasksCreated, calls,
                resourceOffersDone, leftover>>

updateVars == <<updDelivered, updPending, updApplied, taskState, tasksFinished>>

\* runSchedulerController: the subscribe loop, the identity store, the revive loop
VARIABLES
    subscription,        \* "none" or "active": is an event loop running
    fidStore,            \* the identity store's slot ("" = nothing stored)
    presented,           \* the framework identity of the last SUBSCRIBE call
    lastErr,             \* what the last subscription ended with ("none" = no end yet)
    shutdown,            \* state.shutdown() was called
    restarted,           \* the process was restarted at least once
    reviveLoop,          \* position of the revive consumer: "receive", "revive", "ack"
    reviveRequester,     \* per sender on reviveOffersTrg: "idle" or "waitAck"
    reviveServing,       \* the sender whose request the consumer holds, or "none"
    receivedEvent,       \* the dispatcher's receivedEvent, "none" at the receive
    sm,                  \* state of the outer state machine (state.sm)
    connects,            \* CONNECT triggers delivered to state.sm
    reviveTokens,        \* tokens in state.reviveTokens
    tokensIssued,        \* tokens the timer has put in the bucket so far
    loopRevives,         \* REVIVE calls issued by the consumer loop
    triedRevives         \* REVIVE calls issued by tryReviveOffers

controllerVars == <<subscription, fidStore, presented, lastErr, shutdown, restarted,
                    reviveLoop, reviveRequester, reviveServing, receivedEvent, sm,
                    connects, reviveTokens, tokensIssued, loopRevives, triedRevives>>

\* MESSAGE events: the message handler, the goroutines it spawns, the Task
\* Manager's device states, the environment, the Command Servant
VARIABLES
    msgCount,            \* MESSAGE events handled so far
    msgLast,             \* the last MESSAGE handled
    msgResult,           \* what the handler did with it: "nil", "error", "panic"
    respPending,         \* spawned "go func() { UpdateTaskState; ProcessResponse }()"
    taskDevState,        \* the Task Manager's device state of each task
    envState,            \* CurrentState() of the environment
    stopInitiated,       \* TryTransition(NewStopActivityTransition) calls
    commands,            \* the Command Servant's envelopes, by command id
    cmdCompletions,      \* how many times each command completed
    cmdHeard,            \* senders whose response to a command was processed in time
    cmdDeadline,         \* the deadline of the command has passed
    cmdMessages          \* MESSAGE calls sent by SendCommand

messageVars == <<msgCount, msgLast, msgResult, respPending, taskDevState, envState,
                 stopInitiated, commands, cmdCompletions, cmdHeard, cmdDeadline,
                 cmdMessages>>

\* an earlier run of the OFFERS handler, kept to compare a later run with
VARIABLES
    firstRun             \* its offers, its descriptors, what it allocated

\* the repository manager (RepoManager) and the goroutines calling it
VARIABLES
    repoHeap,            \* the Repo objects made by NewRepo and stored: id, Default
    repoList,            \* manager.repoList: identifier -> Repo object (index in repoHeap)
    defaultRepo,         \* manager.defaultRepo: a Repo object, 0 = nil
    managerMutex,        \* manager.mutex: "free" or the caller holding it
    repoCall,            \* per caller, the call it is inside of
    repoResult,          \* the last return: the caller, the call and its value
    managerCrashed       \* a call panicked

repoVars == <<repoHeap, repoList, defaultRepo, managerMutex, repoCall, repoResult,
              managerCrashed>>

\* what the OFFERS handler leaves alone
restVars == <<updateVars, controllerVars, messageVars, firstRun, repoVars>>

vars == <<offersVars, mutex, restVars>>

NoResources == [cpus |-> 0, mem |-> 0, ports |-> <<>>]

Init ==
    /\ tasksToDeploy = <<>>
    /\ pc = "idle"
    /\ offers = <<>>
    /\ descriptorsToDeploy = <<>>
    /\ taken = <<>>
    /\ offerIDsToDecline = {}
    /\ tasksDeployed = {}
    /\ oi = 0
    /\ i = 0
    /\ remainingResources = NoResources
    /\ tasks = <<>>
    /\ tasksDeployedForCurrentOffer = {}
    /\ mutex = "free"
    /\ tasksCreated = {}
    /\ calls = <<>>
    /\ resourceOffersDone = "none"
    /\ leftover = {}
    /\ updDelivered = <<>>
    /\ updPending = {}
    /\ updApplied = <<>>
    /\ taskState = [t \in TaskIds |-> "ABSENT"]
    /\ tasksFinished = 0
    /\ subscription = "none"
    /\ fidStore = ""
    /\ presented = ""
    /\ lastErr = "none"
    /\ shutdown = FALSE
    /\ restarted = FALSE
    /\ reviveLoop = "receive"
    /\ reviveRequester = [r \in Requesters |-> "idle"]
    /\ reviveServing = "none"
    /\ receivedEvent = "none"
    /\ sm = "INITIAL"
    /\ connects = 0
    /\ reviveTokens = 0
    /\ tokensIssued = 0
    /\ loopRevives = 0
    /\ triedRevives = 0
    /\ msgCount = 0
    /\ msgLast = NoMessage
    /\ msgResult = "none"
    /\ respPending = {}
    /\ taskDevState = [t \in TaskIds |-> "STANDBY"]
    /\ envState = "CONFIGURED"
    /\ stopInitiated = 0
    /\ commands = [c \in 1..MaxCommands |-> NoCommand]
    /\ cmdCompletions = [c \in 1..MaxCommands |-> 0]
    /\ cmdHeard = [c \in 1..MaxCommands |-> {}]
    /\ cmdDeadline = [c \in 1..MaxCommands |-> FALSE]
    /\ cmdMessages = {}
    /\ firstRun = NoRun
    /\ repoHeap = <<[id |-> 1, Default |-> TRUE]>>
    /\ repoList = (1 :> 1)
    /\ defaultRepo = 1
    /\ managerMutex = "free"
    /\ repoCall = [c \in Callers |-> NoCall]
    /\ repoResult = NoResult
    /\ managerCrashed = FALSE

\* ------------------------------------------------------ matching predicates
\* constraint.Attributes(offer.Attributes).Satisfy(constraints): every
\* constraint (attribute = value) is met by an attribute of the offer
AttributesSatisfy(attributes, constraints) == constraints \subseteq attributes

\* state.taskman.BuildDescriptorConstraints(descriptorsToDeploy)[descriptor]
DescriptorConstraints(d) == d.constraints

\* task.Resources(remainingResources).Satisfy(wants): CPU, memory and the
\* static ports of the demand are available in the remaining resources
Satisfy(rem, wants) ==
    /\ wants.Cpu <= rem.cpus
    /\ wants.Memory <= rem.mem
    /\ \A p \in wants.StaticPorts : RangesContain(rem.ports, p)

\* The bind loop: for each named dynamic port, the minimum remaining port
\* above the floor, subtracted from the remaining resources.  status is
\* "ok", "noports" (resources.Ports reports no ports resource: continue
\* FOR_DESCRIPTORS) or "panic" (Min() of an empty range list).
RECURSIVE AllocateBindPorts(_, _, _)
AllocateBindPorts(names, rem, bindMap) ==
    IF names = <<>> THEN [status |-> "ok", remaining |-> rem, bindMap |-> bindMap]
    ELSE IF ~PortsOk(rem)
    THEN [status |-> "noports", remaining |-> rem, bindMap |-> bindMap]
    ELSE LET availPorts == RangesRemove(rem.ports, 0, BindPortFloorEnd)
         IN  IF availPorts = <<>>
             THEN [status |-> "panic", remaining |-> rem, bindMap |-> bindMap]
             ELSE LET port == RangesMin(availPorts)
                  IN  AllocateBindPorts(Tail(names), SubtractPort(rem, port),
                                        (Head(names) :> port) @@ bindMap)

\* Claiming the control port from what the bind loop left
ClaimControlPort(rem) ==
    IF ~PortsOk(rem) THEN [status |-> "noports", remaining |-> rem, controlPort |-> 0]
    ELSE LET availPorts == RangesRemove(rem.ports, 0, ControlPortFloorEnd)
         IN  IF availPorts = <<>>
             THEN [status |-> "panic", remaining |-> rem, controlPort |-> 0]
             ELSE [status |-> "ok",
                   remaining |-> SubtractPort(rem, RangesMin(availPorts)),
                   controlPort |-> RangesMin(availPorts)]

BindMapPorts(bindMap) == {bindMap[n] : n \in DOMAIN bindMap}

\* The resources request of a launch: the demand's CPU and memory, the
\* static, bound and control ports, plus the executor resources
ResourcesRequest(wants, bindMap, controlPort) ==
    [cpus  |-> wants.Cpu + executorResources.cpus,
     mem   |-> wants.Memory + executorResources.mem,
     ports |-> wants.StaticPorts \cup BindMapPorts(bindMap) \cup {controlPort}]

\* One iteration of the descriptor walk past the constraints check, for
\* (offer, descriptor) with the given remaining resources: how it ends and
\* what it has computed by then.
ConsiderResources(offer, d, rem) ==
    LET wants == GetWantsForDescriptor(d)
        bound == AllocateBindPorts(wants.BindPorts, rem, <<>>)
        ctl   == ClaimControlPort(bound.remaining)
        res(outcome, r, bm, cp) ==
            [outcome |-> outcome, remaining |-> r, bindMap |-> bm, controlPort |-> cp]
    IN  IF IsNil(wants) THEN res("nowants", rem, <<>>, 0)
        ELSE IF ~Satisfy(rem, wants) THEN res("unsatisfied", rem, <<>>, 0)
        ELSE IF bound.status = "noports"
        THEN res("bindNoPorts", bound.remaining, bound.bindMap, 0)
        ELSE IF bound.status = "panic"
        THEN res("bindPanic", bound.remaining, bound.bindMap, 0)
        ELSE IF ~d.consistent THEN res("taskNil", bound.remaining, bound.bindMap, 0)
        ELSE IF ctl.status = "noports"
        THEN res("controlNoPorts", ctl.remaining, bound.bindMap, 0)
        ELSE IF ctl.status = "panic"
        THEN res("controlPanic", ctl.remaining, bound.bindMap, 0)
        ELSE IF ~d.serializable
        THEN res("marshalError", ctl.remaining, bound.bindMap, ctl.controlPort)
        ELSE res("launch", ctl.remaining, bound.bindMap, ctl.controlPort)

ConsiderMutIgnoreConstraints(offer, d, rem) == ConsiderResources(offer, d, rem)

\* One iteration of the descriptor walk: the constraints check first
Consider(offer, d, rem) ==
    IF ~AttributesSatisfy(offer.attributes, DescriptorConstraints(d))
    THEN [outcome |-> "constraints", remaining |-> rem, bindMap |-> <<>>,
          controlPort |-> 0]
    ELSE ConsiderResources(offer, d, rem)

\* ------------------------------------------------------------------ sender
\* The Environment Manager puts the descriptors of a deployment into the
\* single-slot channel, combining them with what the slot already holds.
\* (A send while a cycle is in progress is not read before the next cycle,
\* so it is taken here between cycles.)
Deploy(kinds) ==
    /\ UNCHANGED taken
    /\ leftover' = {}
    /\ pc = "idle"
    /\ Len(tasksToDeploy) + Len(kinds) <= MaxDescriptors
    /\ tasksToDeploy' = tasksToDeploy \o
          [k \in 1..Len(kinds) |-> MkDescriptor(Len(tasksToDeploy) + k, kinds[k])]
    /\ UNCHANGED <<pc, offers, descriptorsToDeploy, offerIDsToDecline,
                   tasksDeployed, oi, i, remainingResources, tasks,
                   tasksDeployedForCurrentOffer, mutex, tasksCreated, calls,
                   resourceOffersDone>>
    /\ UNCHANGED restVars

\* ----------------------------------------------------------- OFFERS handler
ReceiveMutPeek(channel) == [value |-> channel, channel |-> channel]

\* select { case descriptorsToDeploy = <- state.tasksToDeploy: ... default: }:
\* the non-blocking receive takes what the slot holds and leaves it empty
Receive(channel) == [value |-> channel, channel |-> <<>>]

InitialDeclineSetMutEmpty(offerList) == {}

\* offerIDsToDecline: by default we get ready to decline all offers
InitialDeclineSet(offerList) == {offerList[k].id : k \in 1..Len(offerList)}

\* Prologue of the handler: the offers of the event, the non-blocking receive
\* from tasksToDeploy, the decline-set and the empty deployment map.
OffersEvent(batch) ==
    /\ UNCHANGED leftover
    /\ pc = "idle"
    /\ offers' = [k \in 1..Len(batch) |-> MkOffer(k, batch[k])]
    /\ descriptorsToDeploy' = Receive(tasksToDeploy).value
    /\ taken' = descriptorsToDeploy'
    /\ tasksToDeploy' = Receive(tasksToDeploy).channel
    /\ offerIDsToDecline' = InitialDeclineSet(offers')
    /\ tasksDeployed' = {}
    /\ IF Len(tasksToDeploy) > 0
       THEN pc' = "offer" /\ oi' = 1
       ELSE pc' = "decline" /\ oi' = 0
    /\ i' = 0
    /\ remainingResources' = NoResources
    /\ tasks' = <<>>
    /\ tasksDeployedForCurrentOffer' = {}
    /\ tasksCreated' = {}
    /\ calls' = <<>>
    /\ resourceOffersDone' = "none"
    /\ UNCHANGED mutex
    /\ UNCHANGED restVars

WalkStartMutOffByOne(n) == IF n > 0 THEN n - 1 ELSE 0

WalkStartMutAfterFailure(n) ==
    IF \E k \in 1..Len(calls) : calls[k].type = "ACCEPT" /\ calls[k].err THEN 0 ELSE n

\* for i := len(descriptorsToDeploy)-1; i >= 0; i-- (1-based here)
WalkStart(n) == n

\* Per-offer prologue: the offer's resources, an empty launch list, the lock.
BeginOffer ==
    /\ UNCHANGED taken
    /\ leftover' = {}
    /\ pc = "offer"
    /\ mutex = "free"
    /\ mutex' = "held"
    /\ remainingResources' = offers[oi].resources
    /\ tasks' = <<>>
    /\ tasksDeployedForCurrentOffer' = {}
    /\ i' = WalkStart(Len(descriptorsToDeploy))
    /\ pc' = "desc"
    /\ UNCHANGED <<tasksToDeploy, offers, descriptorsToDeploy, offerIDsToDecline,
                   tasksDeployed, oi, tasksCreated, calls, resourceOffersDone>>
    /\ UNCHANGED restVars

\* the loop's i--
WalkNext(k) == k - 1

\* The iteration in progress
Current == Consider(offers[oi], descriptorsToDeploy[i], remainingResources)

InWalk == pc = "desc" /\ i >= 1 /\ i <= Len(descriptorsToDeploy)

\* state.taskman.NewTaskForMesosOffer(&offer, descriptor, bindMap, executorId)
NewTaskForMesosOffer(offer, d, bindMap) ==
    [id |-> Cardinality(tasksCreated) + 1, offerId |-> offer.id,
     agentId |-> offer.agentId, descriptor |-> d.id, bindMap |-> bindMap]

\* mesos.TaskInfo of a launch (descriptor: the descriptor the task fulfils,
\* as tasksDeployedForCurrentOffer[taskPtr] records it)
TaskInfoFor(t, offer, d, c) ==
    [taskId |-> t.id, agentId |-> offer.agentId, descriptor |-> d,
     resources |-> ResourcesRequest(GetWantsForDescriptor(d), c.bindMap, c.controlPort),
     bindMap |-> c.bindMap, controlPort |-> c.controlPort]

\* continue: nothing has been touched
Skipped ==
    /\ i' = WalkNext(i)
    /\ UNCHANGED <<tasksToDeploy, pc, offers, descriptorsToDeploy,
                   offerIDsToDecline, tasksDeployed, oi, remainingResources, tasks,
                   tasksDeployedForCurrentOffer, mutex, tasksCreated, calls,
                   resourceOffersDone, leftover, taken>>

\* the offer's attributes do not satisfy the descriptor's constraints
SkipConstraints ==
    /\ InWalk
    /\ Current.outcome = "constraints"
    /\ Skipped
    /\ UNCHANGED restVars

\* no resource demand for the descriptor's class
SkipNoWants ==
    /\ InWalk
    /\ Current.outcome = "nowants"
    /\ Skipped
    /\ UNCHANGED restVars

\* the remaining resources do not satisfy the demand
SkipUnsatisfied ==
    /\ InWalk
    /\ Current.outcome = "unsatisfied"
    /\ Skipped
    /\ UNCHANGED restVars

\* continue FOR_DESCRIPTORS past the point of no return: the ports
\* subtracted so far stay subtracted
Abandoned ==
    /\ remainingResources' = Current.remaining
    /\ i' = WalkNext(i)
    /\ UNCHANGED <<tasksToDeploy, pc, offers, descriptorsToDeploy,
                   offerIDsToDecline, tasksDeployed, oi, tasks,
                   tasksDeployedForCurrentOffer, mutex, tasksCreated, calls,
                   resourceOffersDone, leftover, taken>>

\* resources.Ports reports no ports resource inside the bind loop
BindNoPorts ==
    /\ InWalk
    /\ Current.outcome = "bindNoPorts"
    /\ Abandoned
    /\ UNCHANGED restVars

\* NewTaskForMesosOffer returned nil
TaskNil ==
    /\ InWalk
    /\ Current.outcome = "taskNil"
    /\ Abandoned
    /\ UNCHANGED restVars

\* availPorts.Min() on an empty range list in the bind loop: the handler panics
BindPanic ==
    /\ UNCHANGED taken
    /\ UNCHANGED leftover
    /\ InWalk
    /\ Current.outcome = "bindPanic"
    /\ remainingResources' = Current.remaining
    /\ pc' = "crashed"
    /\ UNCHANGED <<tasksToDeploy, offers, descriptorsToDeploy, offerIDsToDecline,
                   tasksDeployed, oi, i, tasks, tasksDeployedForCurrentOffer, mutex,
                   tasksCreated, calls, resourceOffersDone>>
    /\ UNCHANGED restVars

\* What every iteration does once the task is constructed: the task enters the
\* Task Manager and the offer leaves the decline-set
TaskConstructed ==
    /\ tasksCreated' = tasksCreated \cup
          {NewTaskForMesosOffer(offers[oi], descriptorsToDeploy[i], Current.bindMap)}
    /\ offerIDsToDecline' = offerIDsToDecline \ {offers[oi].id}
    /\ remainingResources' = Current.remaining

\* continue FOR_DESCRIPTORS when no ports resource is left for the control port
ControlNoPorts ==
    /\ UNCHANGED taken
    /\ UNCHANGED leftover
    /\ InWalk
    /\ Current.outcome = "controlNoPorts"
    /\ TaskConstructed
    /\ i' = WalkNext(i)
    /\ UNCHANGED <<tasksToDeploy, pc, offers, descriptorsToDeploy, tasksDeployed,
                   oi, tasks, tasksDeployedForCurrentOffer, mutex, calls,
                   resourceOffersDone>>
    /\ UNCHANGED restVars

\* availPorts.Min() on an empty range list for the control port
ControlPanic ==
    /\ UNCHANGED taken
    /\ UNCHANGED leftover
    /\ InWalk
    /\ Current.outcome = "controlPanic"
    /\ TaskConstructed
    /\ pc' = "crashed"
    /\ UNCHANGED <<tasksToDeploy, offers, descriptorsToDeploy, tasksDeployed,
                   oi, i, tasks, tasksDeployedForCurrentOffer, mutex, calls,
                   resourceOffersDone>>
    /\ UNCHANGED restVars

\* json.Marshal fails: state.Unlock() and continue.  Unlocking a mutex that
\* is not held is a fatal runtime error.
MarshalError ==
    /\ UNCHANGED taken
    /\ UNCHANGED leftover
    /\ InWalk
    /\ Current.outcome = "marshalError"
    /\ TaskConstructed
    /\ IF mutex = "held"
       THEN mutex' = "free" /\ i' = WalkNext(i) /\ pc' = pc
       ELSE mutex' = mutex /\ i' = i /\ pc' = "crashed"
    /\ UNCHANGED <<tasksToDeploy, offers, descriptorsToDeploy, tasksDeployed,
                   oi, tasks, tasksDeployedForCurrentOffer, calls, resourceOffersDone>>
    /\ UNCHANGED restVars

\* The match: the launch is appended, the descriptor leaves the pending list
Launch ==
    /\ UNCHANGED taken
    /\ UNCHANGED leftover
    /\ InWalk
    /\ Current.outcome = "launch"
    /\ TaskConstructed
    /\ LET d == descriptorsToDeploy[i]
           t == NewTaskForMesosOffer(offers[oi], d, Current.bindMap)
       IN  /\ tasks' = Append(tasks, TaskInfoFor(t, offers[oi], d, Current))
           /\ tasksDeployedForCurrentOffer' =
                 tasksDeployedForCurrentOffer \cup {<<t.id, d.id>>}
    /\ descriptorsToDeploy' = RemoveAt(descriptorsToDeploy, i)
    /\ i' = WalkNext(i)
    /\ UNCHANGED <<tasksToDeploy, pc, offers, tasksDeployed, oi, mutex, calls,
                   resourceOffersDone>>
    /\ UNCHANGED restVars

EndWalkMutNoUnlock ==
    /\ UNCHANGED taken
    /\ UNCHANGED leftover
    /\ pc = "desc"
    /\ i = 0
    /\ pc' = "accept"
    /\ UNCHANGED <<tasksToDeploy, offers, descriptorsToDeploy, offerIDsToDecline,
                   tasksDeployed, oi, i, remainingResources, tasks,
                   tasksDeployedForCurrentOffer, mutex, tasksCreated, calls,
                   resourceOffersDone>>
    /\ UNCHANGED restVars

\* End of the walk: state.Unlock()
EndWalk ==
    /\ UNCHANGED taken
    /\ UNCHANGED leftover
    /\ pc = "desc"
    /\ i = 0
    /\ IF mutex = "held"
       THEN mutex' = "free" /\ pc' = "accept"
       ELSE mutex' = mutex /\ pc' = "crashed"
    /\ UNCHANGED <<tasksToDeploy, offers, descriptorsToDeploy, offerIDsToDecline,
                   tasksDeployed, oi, i, remainingResources, tasks,
                   tasksDeployedForCurrentOffer, tasksCreated, calls,
                   resourceOffersDone>>
    /\ UNCHANGED restVars

AcceptCallMutRequeue(err) ==
    /\ UNCHANGED taken
    /\ UNCHANGED leftover
    /\ pc = "accept"
    /\ calls' = Append(calls, [type |-> "ACCEPT", offerId |-> offers[oi].id,
                               launches |-> tasks, err |-> err])
    /\ tasksDeployed' = IF ~err /\ Len(tasks) > 0
                        THEN tasksDeployed \cup tasksDeployedForCurrentOffer
                        ELSE tasksDeployed
    /\ offerIDsToDecline' = IF err THEN offerIDsToDecline \cup {offers[oi].id}
                            ELSE offerIDsToDecline
    /\ IF oi < Len(offers)
       THEN oi' = oi + 1 /\ pc' = "offer"
       ELSE oi' = oi /\ pc' = "decline"
    /\ UNCHANGED <<tasksToDeploy, offers, descriptorsToDeploy,
                   i, remainingResources, tasks, tasksDeployedForCurrentOffer, mutex,
                   tasksCreated>>
    /\ UNCHANGED resourceOffersDone
    /\ UNCHANGED restVars

AcceptCallMutRecordOnError(err) ==
    /\ UNCHANGED taken
    /\ UNCHANGED leftover
    /\ pc = "accept"
    /\ calls' = Append(calls, [type |-> "ACCEPT", offerId |-> offers[oi].id,
                               launches |-> tasks, err |-> err])
    /\ tasksDeployed' = IF Len(tasks) > 0
                        THEN tasksDeployed \cup tasksDeployedForCurrentOffer
                        ELSE tasksDeployed
    /\ IF oi < Len(offers)
       THEN oi' = oi + 1 /\ pc' = "offer"
       ELSE oi' = oi /\ pc' = "decline"
    /\ UNCHANGED <<tasksToDeploy, offers, descriptorsToDeploy, offerIDsToDecline,
                   i, remainingResources, tasks, tasksDeployedForCurrentOffer, mutex,
                   tasksCreated>>
    /\ UNCHANGED resourceOffersDone
    /\ UNCHANGED restVars

\* The ACCEPT call for the current offer, with whatever launches were
\* assembled; err is the outcome of the call.
AcceptCall(err) ==
    /\ UNCHANGED taken
    /\ UNCHANGED leftover
    /\ pc = "accept"
    /\ calls' = Append(calls, [type |-> "ACCEPT", offerId |-> offers[oi].id,
                               launches |-> tasks, err |-> err])
    /\ tasksDeployed' = IF ~err /\ Len(tasks) > 0
                        THEN tasksDeployed \cup tasksDeployedForCurrentOffer
                        ELSE tasksDeployed
    /\ IF oi < Len(offers)
       THEN oi' = oi + 1 /\ pc' = "offer"
       ELSE oi' = oi /\ pc' = "decline"
    /\ UNCHANGED <<tasksToDeploy, offers, descriptorsToDeploy, offerIDsToDecline,
                   i, remainingResources, tasks, tasksDeployedForCurrentOffer, mutex,
                   tasksCreated>>
    /\ UNCHANGED resourceOffersDone
    /\ UNCHANGED restVars

\* The DECLINE call for the offers still in the decline-set, if any; an
\* error of the call is only logged
DeclineCall ==
    /\ UNCHANGED taken
    /\ leftover' = {}
    /\ pc = "decline"
    /\ calls' = IF offerIDsToDecline # {}
                THEN Append(calls, [type |-> "DECLINE", offerIds |-> offerIDsToDecline])
                ELSE calls
    /\ pc' = "notify"
    /\ UNCHANGED <<tasksToDeploy, offers, descriptorsToDeploy, offerIDsToDecline,
                   tasksDeployed, oi, i, remainingResources, tasks,
                   tasksDeployedForCurrentOffer, mutex, tasksCreated,
                   resourceOffersDone>>
    /\ UNCHANGED restVars

NotifyListenersMutBlockingSend(listening) ==
    /\ UNCHANGED taken
    /\ UNCHANGED leftover
    /\ pc = "notify"
    /\ listening
    /\ resourceOffersDone' = "sent"
    /\ pc' = "done"
    /\ UNCHANGED <<tasksToDeploy, offers, descriptorsToDeploy, offerIDsToDecline,
                   tasksDeployed, oi, i, remainingResources, tasks,
                   tasksDeployedForCurrentOffer, mutex, tasksCreated, calls>>
    /\ UNCHANGED restVars

\* Notify listeners: a non-blocking send of the deployment map, then return
NotifyListeners(listening) ==
    /\ UNCHANGED taken
    /\ UNCHANGED leftover
    /\ pc = "notify"
    /\ resourceOffersDone' = IF listening THEN "sent" ELSE "dropped"
    /\ pc' = "done"
    /\ UNCHANGED <<tasksToDeploy, offers, descriptorsToDeploy, offerIDsToDecline,
                   tasksDeployed, oi, i, remainingResources, tasks,
                   tasksDeployedForCurrentOffer, mutex, tasksCreated, calls>>
    /\ UNCHANGED restVars

\* return nil: the handler's locals go out of scope; what is left of the
\* pending list is dropped with them
Return ==
    /\ pc = "done"
    /\ leftover' = {descriptorsToDeploy[k].id : k \in 1..Len(descriptorsToDeploy)}
    /\ pc' = "idle"
    /\ offers' = <<>>
    /\ descriptorsToDeploy' = <<>>
    /\ taken' = <<>>
    /\ offerIDsToDecline' = {}
    /\ tasksDeployed' = {}
    /\ oi' = 0
    /\ i' = 0
    /\ remainingResources' = NoResources
    /\ tasks' = <<>>
    /\ tasksDeployedForCurrentOffer' = {}
    /\ tasksCreated' = {}
    /\ calls' = <<>>
    /\ resourceOffersDone' = "none"
    /\ UNCHANGED <<tasksToDeploy, mutex>>
    /\ UNCHANGED restVars

Next ==
    \/ \E kinds \in SeqsUpTo(DescriptorPool, 1, MaxDescriptors) : Deploy(kinds)
    \/ \E batch \in SeqsUpTo(OfferPool, 1, MaxOffers) : OffersEvent(batch)
    \/ BeginOffer
    \/ SkipConstraints
    \/ SkipNoWants
    \/ SkipUnsatisfied
    \/ BindNoPorts
    \/ BindPanic
    \/ TaskNil
    \/ ControlNoPorts
    \/ ControlPanic
    \/ MarshalError
    \/ Launch
    \/ EndWalk
    \/ \E err \in BOOLEAN : AcceptCall(err)
    \/ DeclineCall
    \/ \E listening \in BOOLEAN : NotifyListeners(listening)
    \/ Return

Spec == Init /\ [][Next]_vars

\* ------------------------------------------------------------------ claims
AcceptIndexes == {k \in 1..Len(calls) : calls[k].type = "ACCEPT"}
DeclineIndexes == {k \in 1..Len(calls) : calls[k].type = "DECLINE"}

\* The launches not yet handed to an ACCEPT call
UnsentLaunches == IF pc \in {"desc", "accept", "crashed"} THEN tasks ELSE <<>>

\* Every launch of the cycle so far, with the offer it was placed on
LaunchesOn(offerId) ==
    LET sent == {<<k, n>> \in AcceptIndexes \X (1..MaxDescriptors + 1) :
                    calls[k].offerId = offerId /\ n <= Len(calls[k].launches)}
    IN  {calls[c[1]].launches[c[2]] : c \in sent}
        \cup (IF oi = offerId THEN Range(UnsentLaunches) ELSE {})

AllLaunches == UNION {LaunchesOn(offers[k].id) : k \in 1..Len(offers)}

RECURSIVE SumOver(_, _)
SumOver(launches, field) ==
    IF launches = <<>> THEN 0
    ELSE Head(launches).resources[field] + SumOver(Tail(launches), field)

\* C1: in every ACCEPT call the componentwise sum of the launches' requests
\* (CPU, memory, ports; executor resources included) stays within the
\* resources of the offer the call names.
C1_OfferConservation ==
    \A k \in AcceptIndexes :
        LET ls == calls[k].launches
            o  == offers[calls[k].offerId].resources
        IN  /\ SumOver(ls, "cpus") <= o.cpus
            /\ SumOver(ls, "mem") <= o.mem
            /\ \A a \in 1..Len(ls) :
                  \A p \in ls[a].resources.ports : RangesContain(o.ports, p)
            /\ \A a, b \in 1..Len(ls) :
                  a # b => ls[a].resources.ports \cap ls[b].resources.ports = {}

\* C2: two launches for the same agent have disjoint port sets (static,
\* bound dynamic and control ports).
C2_PortsDisjoint ==
    \A x, y \in AllLaunches :
        (x.taskId # y.taskId /\ x.agentId = y.agentId)
            => x.resources.ports \cap y.resources.ports = {}

TakenIds == {taken[k].id : k \in 1..Len(taken)}
PendingIds == {descriptorsToDeploy[k].id : k \in 1..Len(descriptorsToDeploy)}
LaunchCount(id) ==
    LET sent == {<<k, n>> \in AcceptIndexes \X (1..MaxDescriptors + 1) :
                    n <= Len(calls[k].launches)
                    /\ calls[k].launches[n].descriptor.id = id}
        unsent == {n \in 1..Len(UnsentLaunches) : UnsentLaunches[n].descriptor.id = id}
    IN  Cardinality(sent) + Cardinality(unsent)

\* C3: every descriptor taken in the cycle is either still in the pending
\* list and in no launch, or out of the pending list and in exactly one
\* launch of exactly one offer.
C3_AtMostOnceLaunch ==
    \A id \in TakenIds :
        IF id \in PendingIds THEN LaunchCount(id) = 0 ELSE LaunchCount(id) = 1

\* a cycle that launched descriptors on two different offers has returned
C3_Witness ==
    /\ pc = "done"
    /\ Len(taken) = 2
    /\ descriptorsToDeploy = <<>>
    /\ \E a, b \in AcceptIndexes :
          /\ calls[a].offerId # calls[b].offerId
          /\ Len(calls[a].launches) = 1
          /\ Len(calls[b].launches) = 1

NamedInAccept(offerId) == \E k \in AcceptIndexes : calls[k].offerId = offerId
NamedInDecline(offerId) == \E k \in DeclineIndexes : offerId \in calls[k].offerIds

\* C4: when the handler returns, every offer of the event has been named in
\* an ACCEPT call or in the DECLINE call of the cycle.
C4_EveryOfferAnswered ==
    pc = "done" =>
        \A k \in 1..Len(offers) :
            NamedInAccept(offers[k].id) \/ NamedInDecline(offers[k].id)

\* a cycle that launched on its first offer and declined its second has
\* returned
C4_Witness ==
    /\ pc = "done"
    /\ Len(offers) = 2
    /\ \E k \in AcceptIndexes :
          calls[k].offerId = offers[1].id /\ Len(calls[k].launches) >= 1
    /\ NamedInDecline(offers[2].id)

\* The two offers of the constraint mismatch scenario, in either order, and
\* the one descriptor constrained to role = FLP
C5_Scenario ==
    /\ Len(offers) = 2
    /\ {offers[1].attributes, offers[2].attributes}
          = {{<<"role", "FLP">>}, {<<"role", "EPN">>}}
    /\ Len(taken) = 1
    /\ taken[1].constraints = {<<"role", "FLP">>}

\* C5: a launch is placed on an offer only if the offer's attributes satisfy
\* the descriptor's constraints; in the scenario the cycle ends with exactly
\* one ACCEPT naming the FLP offer, which launches the task, and exactly one
\* DECLINE, which names the EPN offer and only that one.
C5_ConstraintsRespected ==
    /\ \A k \in 1..Len(offers) :
          \A l \in LaunchesOn(offers[k].id) :
              AttributesSatisfy(offers[k].attributes, l.descriptor.constraints)
    /\ (pc = "done" /\ C5_Scenario) =>
          \E a, b \in 1..2 :
              /\ offers[a].attributes = {<<"role", "FLP">>}
              /\ offers[b].attributes = {<<"role", "EPN">>}
              /\ Cardinality({k \in AcceptIndexes : calls[k].offerId = offers[a].id}) = 1
              /\ Cardinality(LaunchesOn(offers[a].id)) = 1
              /\ LaunchesOn(offers[b].id) = {}
              /\ Cardinality(DeclineIndexes) = 1
              /\ \A k \in DeclineIndexes : calls[k].offerIds = {offers[b].id}

C5_Witness == pc = "done" /\ C5_Scenario /\ offers[1].attributes = {<<"role", "EPN">>}

RECURSIVE RangesSize(_)
RangesSize(rs) ==
    IF rs = <<>> THEN 0 ELSE Head(rs)[2] - Head(rs)[1] + 1 + RangesSize(Tail(rs))

\* The iteration in progress has passed the constraints and demand checks and
\* the offer's remaining ports above the floor are fewer than the named
\* dynamic ports of the descriptor
PortShortage ==
    /\ InWalk
    /\ LET d     == descriptorsToDeploy[i]
           wants == GetWantsForDescriptor(d)
       IN  /\ AttributesSatisfy(offers[oi].attributes, DescriptorConstraints(d))
           /\ ~IsNil(wants)
           /\ Satisfy(remainingResources, wants)
           /\ RangesSize(RangesRemove(remainingResources.ports, 0, BindPortFloorEnd))
                 < Len(wants.BindPorts)

\* C6: when the offer cannot supply a port above the floor for each named
\* dynamic port, the iteration abandons the descriptor: nothing is launched,
\* the descriptor stays pending, the offer stays in the decline-set if it
\* was there, the handler does not fail and the walk goes on.
C6_PortShortageAbandons ==
    [][PortShortage =>
          /\ pc' = "desc"
          /\ i' = i - 1
          /\ tasks' = tasks
          /\ descriptorsToDeploy' = descriptorsToDeploy
          /\ offerIDsToDecline' = offerIDsToDecline]_vars

\* C7 as claimed: the descriptors the previous cycle left unlaunched are among
\* those the next cycle receives.
C7_UnlaunchedStillPending == pc # "idle" => leftover \subseteq TakenIds

\* C7 as amended: the handler never sends on the pending channel, so after a
\* cycle that left descriptors unlaunched the channel is empty until the
\* sender deploys again, and a cycle that starts before that receives no
\* descriptors.
C7_UnlaunchedDropped ==
    leftover # {} => IF pc = "idle" THEN tasksToDeploy = <<>> ELSE taken = <<>>

\* the prologue of a cycle has run after a cycle that left descriptors
\* unlaunched
C7_Witness == pc = "decline" /\ leftover # {} /\ calls = <<>>

\* C8: every launch's control port is at or above the start of the control
\* port range, 47101.
C8_ControlPortFloor ==
    \A l \in AllLaunches : l.controlPort >= ControlPortRangeStart

\* The single-offer happy path: one offer with 4 CPU, 8 GiB and ports
\* [10000-11000, 47101-47200]; one descriptor demanding 2 CPU, 1 GiB and the
\* dynamic port data, without constraints
C9_Scenario ==
    /\ Len(offers) = 1
    /\ offers[1].resources =
          [cpus |-> 4, mem |-> 8192,
           ports |-> << <<10000, 11000>>, <<47101, 47200>> >>]
    /\ Len(taken) = 1
    /\ taken[1].constraints = {}
    /\ taken[1].consistent /\ taken[1].serializable
    /\ GetWantsForDescriptor(taken[1]) =
          [Cpu |-> 2, Memory |-> 1024, StaticPorts |-> {}, BindPorts |-> <<"data">>]

\* C9: the happy path ends with one ACCEPT launching one task with data bound
\* to 10000 and control port 47101, and without a DECLINE.
C9_HappyPath ==
    (pc = "done" /\ C9_Scenario) =>
        /\ Len(calls) = 1
        /\ calls[1].type = "ACCEPT"
        /\ calls[1].offerId = offers[1].id
        /\ Len(calls[1].launches) = 1
        /\ DOMAIN calls[1].launches[1].bindMap = {"data"}
        /\ calls[1].launches[1].bindMap["data"] = 10000
        /\ calls[1].launches[1].controlPort = 47101

C9_Witness == pc = "done" /\ C9_Scenario

SameDemand(x, y) == [taken[x] EXCEPT !.id = 0] = [taken[y] EXCEPT !.id = 0]

LaunchedOn(id, offerId) == \E l \in LaunchesOn(offerId) : l.descriptor.id = id

\* C10: the walk goes from the last descriptor to the first.  The launches
\* of an offer are in decreasing list position, and of two descriptors with
\* the same demand and constraints the earlier one is launched on an offer
\* only if the later one was launched on that offer or on one before it.
C10_LastInsertedFirst ==
    /\ \A k \in AcceptIndexes :
          \A a, b \in 1..Len(calls[k].launches) :
              a < b => calls[k].launches[a].descriptor.id
                          > calls[k].launches[b].descriptor.id
    /\ \A x, y \in 1..Len(taken) :
          (x < y /\ SameDemand(x, y)) =>
              \A o \in 1..Len(offers) :
                  LaunchedOn(taken[x].id, offers[o].id) =>
                      \E o2 \in 1..o : LaunchedOn(taken[y].id, offers[o2].id)

\* two descriptors with the same demand met one offer that had room for one:
\* the later one was launched, the earlier one is still pending
C10_Witness ==
    /\ pc = "done"
    /\ Len(offers) = 1
    /\ Len(taken) = 2
    /\ SameDemand(1, 2)
    /\ LaunchedOn(taken[2].id, offers[1].id)
    /\ descriptorsToDeploy = <<taken[1]>>

\* ================================================= UPDATE events (statusUpdate)
\* how many UPDATE events one behaviour delivers
MaxUpdates == 3

\* mesos.TaskState values an UPDATE can carry
TerminalStates == {"TASK_FINISHED", "TASK_LOST", "TASK_KILLED", "TASK_FAILED", "TASK_ERROR"}
UpdateStates == {"TASK_RUNNING"} \cup TerminalStates

\* A task record is created when the task is launched (Task Manager,
\* NewTaskForMesosOffer); task ids are fresh, a record is created once.
TaskLaunched(t) ==
    /\ taskState[t] = "ABSENT"
    /\ taskState' = [taskState EXCEPT ![t] = "TASK_STAGING"]
    /\ UNCHANGED <<offersVars, mutex, controllerVars, messageVars, firstRun, repoVars, updDelivered, updPending, updApplied, tasksFinished>>

\* state.tasksFinished++ under the state mutex, for TASK_FINISHED only
CountFinished(st, n) == IF st = "TASK_FINISHED" THEN n + 1 ELSE n

\* The UPDATE handler, run by the event loop after the acknowledgement rule
\* (controller.AckStatusUpdates(...).AndThen()): when the acknowledgement
\* fails the handler is not run.  Otherwise: the switch on the state (the
\* TASK_FINISHED case takes and releases the state mutex), then
\* "go state.taskman.UpdateTaskStatus(&s)" and return nil.
StatusUpdate(t, st, ackOk) ==
    /\ Len(updDelivered) < MaxUpdates
    /\ taskState[t] # "ABSENT"
    /\ updDelivered' = Append(updDelivered, [task |-> t, state |-> st, acked |-> ackOk])
    /\ IF ackOk
       THEN /\ st = "TASK_FINISHED" => mutex = "free"
            /\ tasksFinished' = CountFinished(st, tasksFinished)
            /\ updPending' = updPending \cup {Len(updDelivered')}
       ELSE UNCHANGED <<tasksFinished, updPending>>
    /\ UNCHANGED <<offersVars, mutex, controllerVars, messageVars, firstRun, repoVars, updApplied, taskState>>

\* Task Manager UpdateTaskStatus: the record takes the reported state; a
\* record in a terminal state is frozen, a removed record is not recreated.
NextTaskStateMutOverwrite(cur, st) == st

NextTaskState(cur, st) ==
    IF cur \in TerminalStates \cup {"ABSENT", "REMOVED"} THEN cur ELSE st

\* One spawned goroutine runs: any of the pending ones, the Go scheduler
\* gives no order among them.
UpdateTaskStatus(k) ==
    /\ k \in updPending
    /\ updPending' = updPending \ {k}
    /\ updApplied' = Append(updApplied, k)
    /\ taskState' = [taskState EXCEPT
                       ![updDelivered[k].task] = NextTaskState(@, updDelivered[k].state)]
    /\ UNCHANGED <<offersVars, mutex, controllerVars, messageVars, firstRun, repoVars, updDelivered, tasksFinished>>

\* The grace window of a terminal record elapses: the record is removed.
RemoveTask(t) ==
    /\ taskState[t] \in TerminalStates
    /\ taskState' = [taskState EXCEPT ![t] = "REMOVED"]
    /\ UNCHANGED <<offersVars, mutex, controllerVars, messageVars, firstRun, repoVars, updDelivered, updPending, updApplied, tasksFinished>>

NextUpdate ==
    \/ \E t \in TaskIds : TaskLaunched(t)
    \/ \E t \in TaskIds, st \in UpdateStates, ackOk \in BOOLEAN : StatusUpdate(t, st, ackOk)
    \/ \E k \in 1..MaxUpdates : UpdateTaskStatus(k)
    \/ \E t \in TaskIds : RemoveTask(t)

SpecUpdate == Init /\ [][NextUpdate]_vars

\* C11: for every task, UpdateTaskStatus runs in the order of delivery: of
\* two applied updates of the same task the one delivered first is applied
\* first.
C11_UpdatesAppliedInOrder ==
    \A a, b \in 1..Len(updApplied) :
        (a < b /\ updDelivered[updApplied[a]].task = updDelivered[updApplied[b]].task)
            => updApplied[a] < updApplied[b]

\* C12: a record in a terminal state keeps that state until it is removed,
\* and a removed record stays removed, whatever UPDATE is applied.
C12_TerminalIsFinal ==
    [][\A t \in TaskIds :
          /\ taskState[t] \in TerminalStates => taskState'[t] \in {taskState[t], "REMOVED"}
          /\ taskState[t] = "REMOVED" => taskState'[t] = "REMOVED"]_vars

\* a TASK_RUNNING update was applied after a terminal one of the same task,
\* and the record is still terminal
C12_Witness ==
    \E a, b \in 1..Len(updApplied) :
        /\ a < b
        /\ updDelivered[updApplied[a]].task = updDelivered[updApplied[b]].task
        /\ updDelivered[updApplied[a]].state \in TerminalStates
        /\ updDelivered[updApplied[b]].state = "TASK_RUNNING"
        /\ taskState[updDelivered[updApplied[b]].task] \in TerminalStates

\* ======================================= the controller (runSchedulerController)
\* framework identities the outer manager can hand out
FrameworkIds == {"fw1", "fw2"}

\* what a subscription can end with: no error, end of stream, a transport
\* error, a StateError returned by an event handler
TerminationErrors == {"nil", "EOF", "transport", "StateError"}

\* how many tokens the timer issues, how many revive requests are sent
MaxTokens == 2
MaxReviveRequests == 2

SubscribeFrameworkIDMutEmpty(stored) == ""

\* controller.WithFrameworkID(store.GetIgnoreErrors(fidStore)): evaluated at
\* every subscribe, the stored identity or the empty string
SubscribeFrameworkID(stored) == stored

IsStateErrorMutAnyError(err) == err \notin {"nil", "none"}

\* _, ok := err.(StateError)
IsStateError(err) == err = "StateError"

\* controller.WithSubscriptionTerminated(func(err error) {...}): the handler
\* that runs at the end of every subscription cycle; the value of shutdown
\* after it
SubscriptionTerminated(err, down) ==
    IF err # "nil" /\ IsStateError(err) THEN TRUE ELSE down

\* controller.Run, one turn of its loop: it runs while the context is not
\* done; it reads the identity, sends SUBSCRIBE, and when the call fails the
\* subscription is over at once and the termination handler runs.
Subscribe(callOk) ==
    /\ subscription = "none"
    /\ ~shutdown
    /\ presented' = SubscribeFrameworkID(fidStore)
    /\ IF callOk
       THEN /\ subscription' = "active"
            /\ UNCHANGED <<lastErr, shutdown>>
       ELSE /\ subscription' = "none"
            /\ lastErr' = "transport"
            /\ shutdown' = SubscriptionTerminated("transport", shutdown)
    /\ UNCHANGED <<offersVars, mutex, updateVars, messageVars, firstRun, repoVars, fidStore, restarted, reviveLoop,
                   reviveRequester, reviveServing, receivedEvent, sm, connects, reviveTokens, tokensIssued, loopRevives, triedRevives>>

\* controller.TrackSubscription(fidStore, failoverTimeout) on SUBSCRIBED: the
\* identity of the event is remembered when the store holds none; an identity
\* that differs from a stored one is an error and the store is left alone.
TrackSubscription(stored, id) ==
    IF stored = id THEN [store |-> stored, err |-> FALSE]
    ELSE IF stored = "" THEN [store |-> id, err |-> FALSE]
    ELSE [store |-> stored, err |-> TRUE]

\* the event kinds of the transport other than SUBSCRIBED
OtherEventTypes == {"OFFERS", "UPDATE", "FAILURE", "MESSAGE", "HEARTBEAT"}

\* notifyStateMachine: schedEventsCh <- e.GetType().  The channel is
\* unbuffered: the send goes through when the dispatcher is at its receive,
\* which then holds the type in receivedEvent.
notifyStateMachine(type) ==
    /\ receivedEvent = "none"
    /\ receivedEvent' = type

\* The SUBSCRIBED event: the rule notifyStateMachine, then the handler.  An
\* error of the handler ends the event loop, and the termination handler
\* runs with it (it is not a StateError of this package).
SubscribedEvent(id) ==
    /\ subscription = "active"
    /\ notifyStateMachine("SUBSCRIBED")
    /\ fidStore' = TrackSubscription(fidStore, id).store
    /\ IF TrackSubscription(fidStore, id).err
       THEN /\ subscription' = "none"
            /\ lastErr' = "transport"
            /\ shutdown' = SubscriptionTerminated("transport", shutdown)
       ELSE UNCHANGED <<subscription, lastErr, shutdown>>
    /\ UNCHANGED <<offersVars, mutex, updateVars, messageVars, firstRun, repoVars, presented, restarted, reviveLoop,
                   reviveRequester, reviveServing, sm, connects, reviveTokens,
                   tokensIssued, loopRevives, triedRevives>>

\* An event of another kind, as far as the dispatcher is concerned: the
\* rule notifyStateMachine runs for it as for every event.  (Its handler is
\* the subject of the other specifications, where the dispatcher, which
\* does nothing for these kinds, is left at its receive.)
EventOfType(type) ==
    /\ subscription = "active"
    /\ notifyStateMachine(type)
    /\ UNCHANGED <<offersVars, mutex, updateVars, messageVars, firstRun, repoVars, subscription, fidStore, presented,
                   lastErr, shutdown, restarted, reviveLoop, reviveRequester,
                   reviveServing, sm, connects, reviveTokens, tokensIssued,
                   loopRevives, triedRevives>>

ShouldConnectMutAnyState(type, state) == type = "SUBSCRIBED"

\* case receivedEvent == scheduler.Event_SUBSCRIBED: if state.sm.Is("INITIAL")
ShouldConnect(type, state) == type = "SUBSCRIBED" /\ state = "INITIAL"

\* state.sm.Event("CONNECT"): the outer state machine leaves INITIAL
SmEvent(state, trigger) ==
    IF state = "INITIAL" /\ trigger = "CONNECT" THEN "CONNECTED" ELSE state

\* The dispatcher goroutine handles the event type it received and goes
\* back to its receive.
DispatchEvent ==
    /\ receivedEvent # "none"
    /\ IF ShouldConnect(receivedEvent, sm)
       THEN /\ sm' = SmEvent(sm, "CONNECT")
            /\ connects' = connects + 1
       ELSE UNCHANGED <<sm, connects>>
    /\ receivedEvent' = "none"
    /\ UNCHANGED <<offersVars, mutex, updateVars, messageVars, firstRun, repoVars, subscription, fidStore, presented,
                   lastErr, shutdown, restarted, reviveLoop, reviveRequester,
                   reviveServing, reviveTokens, tokensIssued, loopRevives,
                   triedRevives>>

\* The subscription ends with err and the termination handler runs.
SubscriptionEnds(err) ==
    /\ subscription = "active"
    /\ subscription' = "none"
    /\ lastErr' = err
    /\ shutdown' = SubscriptionTerminated(err, shutdown)
    /\ UNCHANGED <<offersVars, mutex, updateVars, messageVars, firstRun, repoVars, fidStore, presented, restarted,
                   reviveLoop, reviveRequester, reviveServing, receivedEvent, sm, connects, reviveTokens, tokensIssued,
                   loopRevives, triedRevives>>

\* The process is started again: everything in memory is as after
\* construction, the identity store keeps its slot.
Restart ==
    /\ subscription' = "none"
    /\ presented' = ""
    /\ lastErr' = "none"
    /\ shutdown' = FALSE
    /\ restarted' = TRUE
    /\ reviveLoop' = "receive"
    /\ reviveRequester' = [r \in Requesters |-> "idle"]
    /\ reviveServing' = "none"
    /\ receivedEvent' = "none"
    /\ sm' = "INITIAL"
    /\ connects' = 0
    /\ reviveTokens' = 0
    /\ UNCHANGED <<offersVars, mutex, updateVars, messageVars, firstRun, repoVars, fidStore, tokensIssued,
                   loopRevives, triedRevives>>

\* ------------------------------------------------------------ the revive loop
\* A revive request of sender r: a send on the unbuffered
\* state.reviveOffersTrg, taken by the consumer's "<- state.reviveOffersTrg";
\* the sender then waits for the write-back on the same channel.
RequestRevive(r) ==
    /\ reviveRequester[r] = "idle"
    /\ reviveLoop = "receive"
    /\ loopRevives < MaxReviveRequests
    /\ reviveRequester' = [reviveRequester EXCEPT ![r] = "waitAck"]
    /\ reviveServing' = r
    /\ reviveLoop' = "revive"
    /\ UNCHANGED <<offersVars, mutex, updateVars, messageVars, firstRun, repoVars, subscription, fidStore, presented,
                   lastErr, shutdown, restarted, receivedEvent, sm, connects,
                   reviveTokens, tokensIssued, loopRevives, triedRevives>>

\* The send of sender r is taken by sender w, which is waiting to receive
\* its write-back on the channel: w goes on, r waits in its turn.
RequestTakenByWaiter(r, w) ==
    /\ r # w
    /\ reviveRequester[r] = "idle"
    /\ reviveRequester[w] = "waitAck"
    /\ reviveRequester' = [reviveRequester EXCEPT ![r] = "waitAck", ![w] = "idle"]
    /\ UNCHANGED <<offersVars, mutex, updateVars, messageVars, firstRun, repoVars, subscription, fidStore, presented,
                   lastErr, shutdown, restarted, reviveLoop, reviveServing,
                   receivedEvent, sm, connects, reviveTokens, tokensIssued,
                   loopRevives, triedRevives>>

\* doReviveOffers(ctx, state) in the consumer loop: the REVIVE call; its
\* error is only logged.  No token is taken.
LoopRevive ==
    /\ reviveLoop = "revive"
    /\ loopRevives' = loopRevives + 1
    /\ reviveLoop' = "ack"
    /\ UNCHANGED <<offersVars, mutex, updateVars, messageVars, firstRun, repoVars, subscription, fidStore, presented,
                   lastErr, shutdown, restarted, reviveRequester, reviveServing,
                   receivedEvent, sm, connects, reviveTokens,
                   tokensIssued, triedRevives>>

\* state.reviveOffersTrg <- struct{}{}: the acknowledgement, taken by a
\* sender w that waits on the channel
AckRevive(w) ==
    /\ reviveLoop = "ack"
    /\ reviveRequester[w] = "waitAck"
    /\ reviveLoop' = "receive"
    /\ reviveServing' = "none"
    /\ reviveRequester' = [reviveRequester EXCEPT ![w] = "idle"]
    /\ UNCHANGED <<offersVars, mutex, updateVars, messageVars, firstRun, repoVars, subscription, fidStore, presented,
                   lastErr, shutdown, restarted, receivedEvent, sm, connects,
                   reviveTokens, tokensIssued, loopRevives, triedRevives>>

\* The timer puts a token in the single-slot bucket when it is empty.
TokenRefill ==
    /\ reviveTokens = 0
    /\ tokensIssued < MaxTokens
    /\ reviveTokens' = 1
    /\ tokensIssued' = tokensIssued + 1
    /\ UNCHANGED <<offersVars, mutex, updateVars, messageVars, firstRun, repoVars, subscription, fidStore, presented,
                   lastErr, shutdown, restarted, reviveLoop, reviveRequester, reviveServing, receivedEvent, sm, connects,
                   loopRevives, triedRevives>>

\* tryReviveOffers: select { case <-state.reviveTokens: doReviveOffers
\* default: noop }
TryReviveOffers ==
    /\ IF reviveTokens > 0
       THEN /\ reviveTokens' = reviveTokens - 1
            /\ triedRevives' = triedRevives + 1
       ELSE UNCHANGED <<reviveTokens, triedRevives>>
    /\ UNCHANGED <<offersVars, mutex, updateVars, messageVars, firstRun, repoVars, subscription, fidStore, presented,
                   lastErr, shutdown, restarted, reviveLoop, reviveRequester, reviveServing, receivedEvent, sm, connects,
                   tokensIssued, loopRevives>>

NextController ==
    \/ \E callOk \in BOOLEAN : Subscribe(callOk)
    \/ \E id \in FrameworkIds : SubscribedEvent(id)
    \/ \E type \in OtherEventTypes : EventOfType(type)
    \/ DispatchEvent
    \/ \E err \in TerminationErrors : SubscriptionEnds(err)
    \/ Restart
    \/ \E r \in Requesters : RequestRevive(r)
    \/ \E r, w \in Requesters : RequestTakenByWaiter(r, w)
    \/ LoopRevive
    \/ \E w \in Requesters : AckRevive(w)
    \/ TokenRefill
    \/ TryReviveOffers

SpecController == Init /\ [][NextController]_vars

\* C14: the REVIVE calls of the consumer loop never outnumber the tokens made
\* available.
C14_LoopRevivesWithinTokens == loopRevives <= tokensIssued

\* C15: after a subscription has ended, shutdown has been initiated exactly
\* when it ended with a StateError, and otherwise the loop can subscribe again.
C15_ShutdownIffStateError ==
    (subscription = "none" /\ lastErr # "none") =>
        /\ shutdown <=> lastErr = "StateError"
        /\ lastErr # "StateError" => ENABLED Subscribe(TRUE)

\* a subscription ended with a transport error and the controller has
\* subscribed again
C15_Witness == lastErr = "transport" /\ subscription = "active" /\ ~shutdown

\* C16: every SUBSCRIBE presents what the identity store holds, and a
\* SUBSCRIBED event carrying the stored identity leaves the store as it is.
C16_IdentityPresented ==
    [][/\ (\E callOk \in BOOLEAN : Subscribe(callOk)) => presented' = fidStore
       /\ \A id \in FrameworkIds :
             (id = fidStore /\ SubscribedEvent(id)) => fidStore' = fidStore]_vars

\* after a restart that followed a successful subscribe, the subscribe has
\* presented the stored identity
C16_Witness ==
    restarted /\ subscription = "active" /\ fidStore = "fw1" /\ presented = "fw1"

\* ============================== MESSAGE events (incomingMessageHandler)
\* how many MESSAGE events one behaviour delivers
MaxMessages == 3

\* pb.DeviceEventType values
DeviceEventTypes == {"END_OF_DATA", "NULL_DEVICE_EVENT"}

\* device states a transition response can report
DeviceStates == {"RUNNING"}

\* the executors messages come from; the targets of commands are on "e1"
Executors == {"e1", "e2"}

\* The MESSAGE events the executors can send.  The kinds, in the order in
\* which the handler finds them out:
\*   "nil"              e.GetMessage() == nil
\*   "nosender"         empty agent id or executor id
\*   "malformed"        the _messageType peek cannot be unmarshalled
\*   "unknownType"      a discriminator that is neither of the two known ones
\*   "badDeviceEvent"   DeviceEvent whose type/origin cannot be unmarshalled
\*   "DeviceEvent"      a DeviceEvent of type evType from task
\*   "badResponseName"  MesosCommandResponse whose name cannot be unmarshalled
\*   "unknownCommand"   MesosCommandResponse of an unrecognized command
\*   "badResponseBody"  transition response that cannot be unmarshalled
\*   "Response"         transition response to command id from task
MessagePool ==
    {Message(k) : k \in {"nil", "nosender", "malformed", "unknownType", "badDeviceEvent",
                         "badResponseName", "unknownCommand", "badResponseBody"}}
    \cup {[Message("DeviceEvent") EXCEPT !.evType = e, !.task = t] :
             e \in DeviceEventTypes, t \in TaskIds \cup {"t9"}}
    \cup {[Message("Response") EXCEPT !.executor = x, !.id = c, !.task = t,
                                      !.currentState = st] :
             x \in Executors, c \in 1..MaxCommands, t \in TaskIds, st \in DeviceStates}

\* the environment of each task known to the Task Manager: t1 belongs to the
\* environment, the environment of t2 cannot be found, t9 is no task
TaskEnvironment == [t1 |-> "env", t2 |-> "missing"]

\* What the handler returns and where it routes the message.
incomingMessageHandler(m) ==
    CASE m.kind \in {"nil", "nosender"} -> [err |-> TRUE, route |-> "none"]
      [] m.kind = "malformed" -> [err |-> TRUE, route |-> "none"]
      [] m.kind = "unknownType" -> [err |-> FALSE, route |-> "none"]
      [] m.kind = "badDeviceEvent" -> [err |-> TRUE, route |-> "none"]
      [] m.kind = "DeviceEvent" -> [err |-> FALSE, route |-> "device"]
      [] m.kind \in {"badResponseName", "unknownCommand", "badResponseBody"} ->
            [err |-> TRUE, route |-> "none"]
      [] m.kind = "Response" -> [err |-> FALSE, route |-> "response"]

\* event.NewDeviceEvent(origin, type): nil for a type that is no event
NewDeviceEvent(m) == IF m.evType = "END_OF_DATA" THEN m ELSE NoMessage

EnvIsRunningMutAlways(st) == TRUE

\* env.CurrentState() == "RUNNING"
EnvIsRunning(st) == st = "RUNNING"

\* handleDeviceEvent: what it does for the event of m.
\*   "ignore"  no event, or no such task
\*   "nilenv"  the environment of the task is not found: the error is logged
\*             and env.CurrentState() is then called on the missing environment
\*   "stop"    TryTransition(NewStopActivityTransition)
\*   "leave"   the environment is not running
handleDeviceEvent(m, st) ==
    IF NewDeviceEvent(m) = NoMessage THEN "ignore"
    ELSE IF m.task \notin DOMAIN TaskEnvironment THEN "ignore"
    ELSE IF TaskEnvironment[m.task] = "missing" THEN "nilenv"
    ELSE IF EnvIsRunning(st) THEN "stop"
    ELSE "leave"

ResponseSenderMutEnvelopeTask(m) == [agent |-> "a1", executor |-> m.executor, task |-> "-"]

ResponseSenderMutAnyExecutor(m) == [agent |-> "a1", executor |-> "e1", task |-> m.task]

\* sender := controlcommands.MesosCommandTarget{AgentId, ExecutorId, TaskId}:
\* agent and executor of the envelope, the task id of the payload
ResponseSender(m) == [agent |-> "a1", executor |-> m.executor, task |-> m.task]

\* go func() { ... }(): one more goroutine for the response m; n tells the
\* goroutines of equal responses apart
Spawned(pending, m) ==
    [n |-> Cardinality({g \in pending : g.m = m}) + 1, m |-> m]

\* nothing runs after a panic
Alive == msgResult # "panic"

\* The MESSAGE handler, run by the event loop.  tryOk: TryTransition
\* succeeds; nilPanics: the call on the missing environment panics.  An
\* error returned by the handler ends the event loop: the subscription is
\* over and the termination handler runs with the error.
MessageEvent(m, tryOk, nilPanics) ==
    /\ Alive
    /\ subscription = "active"
    /\ msgCount < MaxMessages
    /\ msgCount' = msgCount + 1
    /\ msgLast' = m
    /\ LET h == incomingMessageHandler(m)
           dev == IF h.route = "device" THEN handleDeviceEvent(m, envState) ELSE "ignore"
       IN /\ msgResult' = IF dev = "nilenv" /\ nilPanics THEN "panic"
                          ELSE IF h.err THEN "error" ELSE "nil"
          /\ stopInitiated' = IF dev = "stop" THEN stopInitiated + 1 ELSE stopInitiated
          /\ envState' = IF dev = "stop" /\ tryOk THEN "CONFIGURED" ELSE envState
          /\ respPending' = IF h.route = "response"
                            THEN respPending \cup {Spawned(respPending, m)}
                            ELSE respPending
          /\ IF h.err
             THEN /\ subscription' = "none"
                  /\ lastErr' = "handler"
                  /\ shutdown' = SubscriptionTerminated("handler", shutdown)
             ELSE UNCHANGED <<subscription, lastErr, shutdown>>
    /\ UNCHANGED <<offersVars, mutex, updateVars, firstRun, repoVars, fidStore, presented, restarted,
                   reviveLoop, reviveRequester, reviveServing, receivedEvent, sm, connects, reviveTokens, tokensIssued,
                   loopRevives, triedRevives, taskDevState, commands, cmdCompletions,
                   cmdHeard, cmdDeadline, cmdMessages>>

\* The operator starts the activity of the environment.
StartActivity ==
    /\ Alive
    /\ envState = "CONFIGURED"
    /\ envState' = "RUNNING"
    /\ UNCHANGED <<offersVars, mutex, updateVars, controllerVars, firstRun, repoVars, msgCount, msgLast,
                   msgResult, respPending, taskDevState, stopInitiated, commands,
                   cmdCompletions, cmdHeard, cmdDeadline, cmdMessages>>

\* ------------------------------------------------------- the Command Servant
\* a target of a command: the task t on the executor "e1" of agent "a1"
Target(t) == [agent |-> "a1", executor |-> "e1", task |-> t]

\* scheduler.SendCommand(ctx, state, command, receiver): one MESSAGE call,
\* addressed to the agent and the executor of the receiver
SendCommand(c, receiver) ==
    [agentId |-> receiver.agent, executorId |-> receiver.executor, command |-> c]

\* The servant issues command c to the targets: one SendCommand per target,
\* one pending slot per target.  Commands are issued in the order of their ids.
ServantSendCommand(c, ts) ==
    /\ Alive
    /\ commands[c].status = "unissued"
    /\ \A b \in 1..(c - 1) : commands[b].status # "unissued"
    /\ commands' = [commands EXCEPT ![c] =
                       [status |-> "pending", targets |-> {Target(t) : t \in ts},
                        resolved |-> {}]]
    /\ cmdMessages' = cmdMessages \cup {SendCommand(c, Target(t)) : t \in ts}
    /\ UNCHANGED <<offersVars, mutex, updateVars, controllerVars, firstRun, repoVars, msgCount, msgLast,
                   msgResult, respPending, taskDevState, envState, stopInitiated,
                   cmdCompletions, cmdHeard, cmdDeadline>>

\* ProcessResponse(&res, sender): a response that matches a pending slot of
\* the command resolves it, and the command completes with ok when it was the
\* last one; any other response is discarded.
ProcessResponse(cmd, sender) ==
    IF cmd.status = "pending" /\ sender \in cmd.targets \ cmd.resolved
    THEN [cmd EXCEPT !.resolved = @ \cup {sender},
                     !.status = IF cmd.resolved \cup {sender} = cmd.targets
                                THEN "ok" ELSE "pending"]
    ELSE cmd

\* Task Manager UpdateTaskState(taskId, state)
UpdateTaskState(devs, t, st) == IF t \in DOMAIN devs THEN [devs EXCEPT ![t] = st] ELSE devs

\* A goroutine g spawned for the transition response g.m runs:
\* UpdateTaskState(res.TaskId, res.CurrentState), then ProcessResponse.
\* (Of the goroutines of equal responses, which do the same, the one
\* numbered last is taken.)
ResponseGoroutine(g) ==
    /\ Alive
    /\ g \in respPending
    /\ \A h \in respPending : h.m = g.m => h.n <= g.n
    /\ respPending' = respPending \ {g}
    /\ taskDevState' = UpdateTaskState(taskDevState, g.m.task, g.m.currentState)
    /\ commands' = [commands EXCEPT ![g.m.id] = ProcessResponse(@, ResponseSender(g.m))]
    /\ cmdCompletions' = [cmdCompletions EXCEPT ![g.m.id] =
                             IF commands[g.m.id].status = "pending"
                                /\ commands'[g.m.id].status = "ok"
                             THEN @ + 1 ELSE @]
    /\ cmdHeard' = [cmdHeard EXCEPT ![g.m.id] =
                       IF commands[g.m.id].status # "unissued" /\ ~cmdDeadline[g.m.id]
                       THEN @ \cup {[agent |-> "a1", executor |-> g.m.executor,
                                     task |-> g.m.task]}
                       ELSE @]
    /\ UNCHANGED <<offersVars, mutex, updateVars, controllerVars, firstRun, repoVars, msgCount, msgLast,
                   msgResult, envState, stopInitiated, cmdDeadline, cmdMessages>>

\* The deadline of command c passes: unresolved targets are timed out and a
\* command that is still pending completes with partial.
Deadline(c) ==
    /\ Alive
    /\ commands[c].status # "unissued"
    /\ ~cmdDeadline[c]
    /\ cmdDeadline' = [cmdDeadline EXCEPT ![c] = TRUE]
    /\ IF commands[c].status = "pending"
       THEN /\ commands' = [commands EXCEPT ![c].status = "partial"]
            /\ cmdCompletions' = [cmdCompletions EXCEPT ![c] = @ + 1]
       ELSE UNCHANGED <<commands, cmdCompletions>>
    /\ UNCHANGED <<offersVars, mutex, updateVars, controllerVars, firstRun, repoVars, msgCount, msgLast,
                   msgResult, respPending, taskDevState, envState, stopInitiated,
                   cmdHeard, cmdMessages>>

\* the MESSAGE handler with the goroutines it spawns and the environment
NextMessage ==
    \/ \E callOk \in BOOLEAN : Subscribe(callOk)
    \/ \E m \in MessagePool, tryOk \in BOOLEAN, nilPanics \in BOOLEAN :
          MessageEvent(m, tryOk, nilPanics)
    \/ StartActivity
    \/ \E g \in respPending : ResponseGoroutine(g)

SpecMessage == Init /\ [][NextMessage]_vars

\* the transition responses among the messages
ResponsePool == {m \in MessagePool : m.kind = "Response"}

\* the messages of the servant's side of the handler: the transition
\* responses, and a message without agent or executor identifier
ServantPool == ResponsePool \cup {Message("nosender")}

\* the Command Servant with the MESSAGE handler that feeds it
NextServant ==
    \/ \E callOk \in BOOLEAN : Subscribe(callOk)
    \/ \E m \in ServantPool : MessageEvent(m, TRUE, FALSE)
    \/ \E c \in 1..MaxCommands, ts \in (SUBSET TaskIds) \ {{}} : ServantSendCommand(c, ts)
    \/ \E g \in respPending : ResponseGoroutine(g)
    \/ \E c \in 1..MaxCommands : Deadline(c)

SpecServant == Init /\ [][NextServant]_vars

\* C13: a command completes at most once; it has completed exactly when its
\* status is ok or partial, which it is once its deadline has passed; and it
\* completed with ok exactly when a response of every target, as sent (agent
\* and executor of the envelope, task of the payload), was processed before
\* the deadline.
C13_CommandCorrelation ==
    \A c \in 1..MaxCommands :
        /\ cmdCompletions[c] <= 1
        /\ cmdCompletions[c] = 1 <=> commands[c].status \in {"ok", "partial"}
        /\ cmdDeadline[c] => commands[c].status \in {"ok", "partial"}
        /\ commands[c].status = "ok" <=>
              (commands[c].status # "unissued" /\ commands[c].targets \subseteq cmdHeard[c])

\* a command to two targets completed with ok, and after that a duplicate of
\* a response was processed and the deadline passed
C13_Witness ==
    /\ commands[1].status = "ok"
    /\ Cardinality(commands[1].targets) = 2
    /\ cmdDeadline[1]
    /\ msgCount = 3
    /\ respPending = {}
    /\ cmdCompletions[1] = 1

\* C17: a MESSAGE that cannot be parsed at the peek step is dropped without
\* the handler failing: the handler returns no error and the subscription
\* goes on.
C17_MalformedDropped ==
    (msgLast.kind = "malformed" /\ msgCount > 0) =>
        /\ msgResult = "nil"
        /\ lastErr # "handler"

\* C18: the handler, given END_OF_DATA from a task of the environment,
\* initiates the stop transition when the environment is RUNNING and
\* initiates nothing when it is not.
C18_EndOfDataStops ==
    [][\A m \in MessagePool :
          (/\ m.kind = "DeviceEvent" /\ m.evType = "END_OF_DATA"
           /\ m.task \in DOMAIN TaskEnvironment /\ TaskEnvironment[m.task] = "env"
           /\ \E tryOk \in BOOLEAN : MessageEvent(m, tryOk, FALSE))
          => stopInitiated' = IF envState = "RUNNING" THEN stopInitiated + 1
                              ELSE stopInitiated]_vars

\* END_OF_DATA from t1 was handled while the environment was running: the
\* stop transition was initiated and the environment left RUNNING
C18_Witness ==
    /\ msgLast.kind = "DeviceEvent" /\ msgLast.evType = "END_OF_DATA" /\ msgLast.task = "t1"
    /\ stopInitiated = 1
    /\ envState = "CONFIGURED"

\* ======================================= two runs of the OFFERS handler
\* C19: when NewTaskForMesosOffer returns nil the cycle's matching is over:
\* the walk does not go on to the next descriptor.
C19_TaskNilIsFatal ==
    [][(InWalk /\ Current.outcome = "taskNil") => pc' # "desc"]_vars

\* What a cycle has allocated so far: which descriptor went to which offer
\* with which bound ports and control port, and the decline-set.
Assignment ==
    {[offer |-> calls[k].offerId, descriptor |-> calls[k].launches[n].descriptor.id,
      bindMap |-> calls[k].launches[n].bindMap,
      controlPort |-> calls[k].launches[n].controlPort] :
         <<k, n>> \in {c \in AcceptIndexes \X (1..MaxDescriptors + 1) :
                          c[2] <= Len(calls[c[1]].launches)}}

\* an ACCEPT call of the cycle failed: what the outer manager answers is no
\* input of the allocation
AcceptFailed == \E k \in AcceptIndexes : calls[k].err

\* A finished run in which every call succeeded is kept as the reference
\* for its inputs.
RecordRun ==
    /\ pc = "done"
    /\ ~firstRun.recorded
    /\ ~AcceptFailed
    /\ firstRun' = [recorded |-> TRUE, offers |-> offers, taken |-> taken,
                    assignment |-> Assignment, declined |-> offerIDsToDecline]
    /\ UNCHANGED <<offersVars, mutex, updateVars, controllerVars, messageVars, repoVars>>

\* the inputs of the cycle are those of the recorded run
SameInputs == offers = firstRun.offers /\ taken = firstRun.taken

\* The OFFERS handler run again: once a run is recorded, the sender deploys
\* the same descriptors and the outer manager offers the same offers.
NextReplay ==
    \/ \E kinds \in SeqsUpTo(DescriptorPool, 1, MaxDescriptors) :
          Deploy(kinds) /\ (firstRun.recorded => tasksToDeploy' = firstRun.taken)
    \/ \E batch \in SeqsUpTo(OfferPool, 1, MaxOffers) :
          OffersEvent(batch) /\ (firstRun.recorded => SameInputs')
    \/ BeginOffer
    \/ SkipConstraints
    \/ SkipNoWants
    \/ SkipUnsatisfied
    \/ BindNoPorts
    \/ BindPanic
    \/ TaskNil
    \/ ControlNoPorts
    \/ ControlPanic
    \/ MarshalError
    \/ Launch
    \/ EndWalk
    \/ \E err \in BOOLEAN : AcceptCall(err)
    \/ DeclineCall
    \/ \E listening \in BOOLEAN : NotifyListeners(listening)
    \/ Return
    \/ RecordRun

SpecReplay == Init /\ [][NextReplay]_vars

C21_AcceptOnlyWithLaunches ==
    /\ \A k \in AcceptIndexes : Len(calls[k].launches) > 0
    /\ \A k \in DeclineIndexes :
           calls[k].offerIds =
               {offers[n].id : n \in {m \in 1..Len(offers) :
                                         LaunchesOn(offers[m].id) = {}}}
    /\ \A n \in 1..Len(offers) :
           ~(NamedInAccept(offers[n].id) /\ NamedInDecline(offers[n].id))

\* The tasks created for an offer and the tasks launched on it
TasksCreatedOn(offerId) == {t.id : t \in {c \in tasksCreated : c.offerId = offerId}}
TasksLaunchedOn(offerId) == {l.taskId : l \in LaunchesOn(offerId)}

\* C22: between two descriptors of the walk, a Task exists in the Task
\* Manager only with its launch appended, an offer is out of the
\* decline-set only with a launch appended for it, and the launched
\* descriptors are the ones that left the pending list.
C22_MatchIsAtomic ==
    pc \in {"desc", "accept"} =>
        /\ TasksCreatedOn(oi) = TasksLaunchedOn(oi)
        /\ (oi \notin offerIDsToDecline) => LaunchesOn(oi) # {}
        /\ \A k \in 1..Len(taken) :
               (\E l \in AllLaunches : l.descriptor.id = taken[k].id)
                   <=> taken[k].id \notin PendingIds

\* ======================================================= the bind ports
\* A port of the range list rs above the bind floor and not in used
PortAvailable(rs, used, p) ==
    RangesContain(rs, p) /\ p > BindPortFloorEnd /\ p \notin used

\* Where the least available port can be: at the start of a range, right
\* above the floor or right above a port already used
PortCandidates(rs, used) ==
    {rs[k][1] : k \in 1..Len(rs)} \cup {BindPortFloorEnd + 1} \cup {u + 1 : u \in used}

IsLeastAvailable(rs, used, p) ==
    /\ PortAvailable(rs, used, p)
    /\ \A q \in PortCandidates(rs, used) : PortAvailable(rs, used, q) => p <= q

\* C23: when a task is constructed for a descriptor, each of its named
\* dynamic ports is bound, in order, to the least port above the floor that
\* the offer's remaining resources still hold once the ports bound before it
\* are taken out; so the ports of a bind map are distinct and none is below
\* 9000.
C23_BindPortsMinimal ==
    [][\A t \in tasksCreated' \ tasksCreated :
          LET names == GetWantsForDescriptor(descriptorsToDeploy[i]).BindPorts
              before(k) == {t.bindMap[names[j]] : j \in 1..(k - 1)}
          IN  /\ DOMAIN t.bindMap = Range(names)
              /\ \A k \in 1..Len(names) :
                     IsLeastAvailable(remainingResources.ports, before(k),
                                      t.bindMap[names[k]])
              /\ \A k, j \in 1..Len(names) :
                     k # j => t.bindMap[names[k]] # t.bindMap[names[j]]
              /\ \A k \in 1..Len(names) : t.bindMap[names[k]] >= 9000]_vars

\* a launch with two bound ports: the second is the least port left once
\* the first was subtracted
C23_Witness ==
    \E l \in AllLaunches :
        /\ DOMAIN l.bindMap = {"data", "mon"}
        /\ l.bindMap["data"] = 10000
        /\ l.bindMap["mon"] = 10001

\* ====================================================== the state mutex
\* C25: while the handler walks the descriptors for an offer it holds the
\* state mutex, on every path through the loop body.
C25_MutexHeldThroughWalk == InWalk => mutex = "held"

\* C26: a call to the outer manager is issued with the state mutex not
\* held; the handler is past the walk's unlock when it issues the ACCEPT
\* or the DECLINE.
C26_NoCallUnderMutex ==
    [][(Len(calls') > Len(calls) \/ pc \in {"accept", "decline"})
           => mutex = "free"]_vars

\* the ACCEPT for an offer with a launch and the DECLINE for another offer
\* have both been issued
C26_Witness ==
    /\ \E k \in AcceptIndexes : Len(calls[k].launches) > 0
    /\ DeclineIndexes # {}

\* ================================================ the end of the cycle
\* C29: at the notification the handler can always go on without a
\* listener: the step from the notification ends the cycle with the map
\* sent or dropped, and the handler then returns.
C29_NotifyNeverBlocks ==
    /\ [](pc = "notify" => ENABLED NotifyListeners(FALSE))
    /\ [][pc = "notify" =>
             /\ pc' = "done"
             /\ resourceOffersDone' \in {"sent", "dropped"}]_vars
    /\ [](pc = "done" => ENABLED Return)

\* a cycle that deployed a task has ended with nobody taking the map
C29_Witness ==
    /\ pc = "done"
    /\ resourceOffersDone = "dropped"
    /\ tasksDeployed # {}

\* ================================================== a failed ACCEPT call
\* The step is an ACCEPT call that fails
AcceptFails ==
    /\ Len(calls') = Len(calls) + 1
    /\ calls'[Len(calls')].type = "ACCEPT"
    /\ calls'[Len(calls')].err

\* C30: a failed ACCEPT changes nothing but the log of calls: the pending
\* list and the channel keep their descriptors, the created tasks stay, the
\* decline-set is as it was, the handler moves to the next offer or to the
\* DECLINE, and no offer is named in two ACCEPT calls.
C30_AcceptFailureIgnored ==
    /\ [][AcceptFails =>
             /\ descriptorsToDeploy' = descriptorsToDeploy
             /\ tasksToDeploy' = tasksToDeploy
             /\ tasksCreated' = tasksCreated
             /\ tasksDeployed' = tasksDeployed
             /\ offerIDsToDecline' = offerIDsToDecline
             /\ IF oi < Len(offers)
                THEN pc' = "offer" /\ oi' = oi + 1
                ELSE pc' = "decline"]_vars
    /\ [](\A k, n \in AcceptIndexes : calls[k].offerId = calls[n].offerId => k = n)
    /\ [](\A k \in AcceptIndexes :
             calls[k].err => \A t \in Range(calls[k].launches) :
                                 /\ t.descriptor.id \notin PendingIds
                                 /\ \E c \in tasksCreated : c.id = t.taskId)

\* the handler has returned from a cycle in which the ACCEPT carrying a
\* launch for the first offer failed and the second offer was accepted
C30_Witness ==
    /\ pc = "done"
    /\ \E k, n \in AcceptIndexes :
           /\ calls[k].offerId = 1
           /\ calls[k].err
           /\ Len(calls[k].launches) > 0
           /\ calls[n].offerId = 2
           /\ ~calls[n].err
           /\ Len(calls[n].launches) > 0

\* ===================================================== the revive barrier
\* C24: a sender waiting for the write-back goes on only when the consumer
\* loop acknowledges, after the REVIVE call, the request it took from that
\* very sender.
C24_ReleasedByOwnAck ==
    [][\A r \in Requesters :
          (reviveRequester[r] = "waitAck" /\ reviveRequester'[r] = "idle" /\ ~Restart)
              => /\ reviveLoop = "ack"
                 /\ reviveLoop' = "receive"
                 /\ reviveServing = r]_vars

\* ================================================== the CONNECT trigger
\* C28: CONNECT is triggered only by the dispatcher holding a SUBSCRIBED
\* event with the state machine in INITIAL, and at most once in the life of
\* the process.
C28_ConnectOnce ==
    /\ [][(connects' # connects /\ ~Restart) =>
             /\ receivedEvent = "SUBSCRIBED"
             /\ sm = "INITIAL"
             /\ connects' = connects + 1]_vars
    /\ [](connects <= 1)

\* after a CONNECT and the end of a subscription, the dispatcher receives
\* the SUBSCRIBED event of the next subscription
C28_Witness ==
    /\ connects = 1
    /\ sm = "CONNECTED"
    /\ lastErr # "none"
    /\ ~restarted
    /\ receivedEvent = "SUBSCRIBED"

\* ============================================ the delivery of a response
\* The step is the handling of a message
MessageHandled == msgCount' = msgCount + 1

\* The step is the run of the goroutine g
GoroutineRuns(g) == g \in respPending /\ g \notin respPending'

\* C27: a transition response with a sender spawns exactly one goroutine,
\* which runs once: it sets the executor-reported state of the response's
\* task to the response's currentState and hands the response to the
\* Command Servant with the agent and executor of the envelope and the task
\* of the payload.  A message without agent or executor identifier spawns
\* nothing.
C27_ResponseDeliveredOnce ==
    /\ [][MessageHandled =>
             /\ msgLast'.kind = "Response" =>
                    /\ respPending \subseteq respPending'
                    /\ Cardinality(respPending') = Cardinality(respPending) + 1
                    /\ \A g \in respPending' \ respPending : g.m = msgLast'
             /\ msgLast'.kind = "nosender" =>
                    /\ respPending' = respPending
                    /\ UNCHANGED <<commands, cmdHeard, taskDevState>>]_vars
    /\ [][\A g \in respPending : GoroutineRuns(g) =>
             /\ respPending' = respPending \ {g}
             /\ taskDevState'[g.m.task] = g.m.currentState
             /\ commands'[g.m.id] =
                    ProcessResponse(commands[g.m.id],
                                    [agent |-> "a1", executor |-> g.m.executor,
                                     task |-> g.m.task])]_vars
    /\ [](\A g \in respPending : g.n <= msgCount /\ g.m.kind = "Response")
    /\ [][(\E c \in 1..MaxCommands : commands'[c].resolved # commands[c].resolved)
             => \E g \in respPending : GoroutineRuns(g)]_vars

\* the response of a task was delivered to the servant, resolved the
\* command, and the task's reported state is the one of the response, after
\* a message without sender had been refused
C27_Witness ==
    /\ \E c \in 1..MaxCommands : Target("t1") \in commands[c].resolved
    /\ taskDevState["t1"] = "RUNNING"
    /\ lastErr = "handler"
    /\ respPending = {}

\* ================================================ the unlock of the mutex
\* C31: the state.Unlock() at the end of the descriptor walk finds the
\* mutex held by the handler: no path through the walk has released it
\* already.
C31_UnlockFindsMutexHeld == (pc = "desc" /\ i = 0) => mutex = "held"

\* ============================================== a descriptor not launched
\* The step moves the walk past a descriptor without launching it
DescriptorPassed ==
    /\ InWalk
    /\ pc' = "desc"
    /\ i' # i
    /\ tasks' = tasks

\* C32: a descriptor that the walk passes without a launch leaves the
\* offer's remaining resources as they were before it was considered.
C32_SkipLeavesResources ==
    [][DescriptorPassed => remainingResources' = remainingResources]_vars

\* ==================================================== the deployment map
\* The launches carried by the ACCEPT calls that returned without error
AcceptedLaunches ==
    UNION {Range(calls[k].launches) : k \in {n \in AcceptIndexes : ~calls[n].err}}

\* C33: the deployment map handed to the listeners holds exactly the tasks
\* launched by an ACCEPT call that returned without error, each with the
\* descriptor it fulfils.
C33_DeploymentMapExact ==
    pc \in {"notify", "done"} =>
        tasksDeployed = {<<l.taskId, l.descriptor.id>> : l \in AcceptedLaunches}

\* the map is at the notification after a cycle in which one ACCEPT with a
\* launch failed and another with a launch succeeded
C33_Witness ==
    /\ pc = "notify"
    /\ \E k, n \in AcceptIndexes :
           /\ calls[k].err /\ Len(calls[k].launches) > 0
           /\ ~calls[n].err /\ Len(calls[n].launches) > 0

\* ================================== END_OF_DATA without task or environment
\* END_OF_DATA from a task that is not known, or whose environment is not
\* found
OrphanEndOfData(m) ==
    /\ m.kind = "DeviceEvent"
    /\ m.evType = "END_OF_DATA"
    /\ (m.task \notin DOMAIN TaskEnvironment \/ TaskEnvironment[m.task] = "missing")

\* C34: END_OF_DATA from an unknown task or from a task without
\* environment is dropped: the environment is not consulted, no stop is
\* initiated and the handler returns normally.
C34_OrphanEventDropped ==
    [][\A m \in MessagePool, tryOk \in BOOLEAN, nilPanics \in BOOLEAN :
          (OrphanEndOfData(m) /\ MessageEvent(m, tryOk, nilPanics)) =>
              /\ handleDeviceEvent(m, envState) = "ignore"
              /\ msgResult' = "nil"
              /\ stopInitiated' = stopInitiated
              /\ envState' = envState]_vars

\* ======================================== the order of transition responses
\* the states an executor reports in the responses considered here
ReportedStates == {"CONFIGURED", "RUNNING"}

\* transition responses of the tasks to command 1, one per reported state
OrderedPool ==
    {[Message("Response") EXCEPT !.id = 1, !.task = t, !.currentState = st] :
        t \in TaskIds, st \in ReportedStates}

\* the MESSAGE handler fed with transition responses, and its goroutines
NextResponses ==
    \/ \E callOk \in BOOLEAN : Subscribe(callOk)
    \/ \E m \in OrderedPool : MessageEvent(m, TRUE, FALSE)
    \/ \E g \in respPending : ResponseGoroutine(g)

SpecResponses == Init /\ [][NextResponses]_vars

\* C35: once every response received so far has been processed, the state
\* recorded for the task of the last response is the currentState of that
\* response, the last one received from that task.
C35_LastResponseWins ==
    (msgLast.kind = "Response" /\ respPending = {}) =>
        taskDevState[msgLast.task] = msgLast.currentState

\* ================================================ the repository manager
\* the repository identifiers in use, in the order sort.Strings gives them
MaxRepos == 2
RepoIds == 1..MaxRepos

\* the Repo objects one process life creates
MaxRepoObjects == 3

\* everything but the repository manager
nonRepoVars == <<offersVars, mutex, updateVars, controllerVars, messageVars, firstRun>>

\* GetOrderedRepolistKeys: the keys of repoList, sorted
RECURSIVE SortedKeys(_)
SortedKeys(S) ==
    IF S = {} THEN <<>>
    ELSE LET least == CHOOSE k \in S : \A j \in S : k <= j
         IN  <<least>> \o SortedKeys(S \ {least})

GetOrderedRepolistKeys(list) == SortedKeys(DOMAIN list)

\* setDefaultRepo(repo): the old default, if any, loses its flag; repo
\* becomes manager.defaultRepo and gets the flag
setDefaultRepo(heap, def, repo) ==
    LET cleared == IF def # 0 THEN [heap EXCEPT ![def].Default = FALSE] ELSE heap
    IN  [repoHeap |-> [cleared EXCEPT ![repo].Default = TRUE], defaultRepo |-> repo]

\* what the clone of AddRepo can do: "cloned", "cloneFails" (any error but
\* ErrRepositoryAlreadyExists), "checkedOut" and "checkoutFails" (the
\* directory exists already and the checkout of the revision succeeds or not)
CloneOutcomes == {"cloned", "cloneFails", "checkedOut", "checkoutFails"}

AddRepoMutListBeforeClone(heap, list, def, path, outcome) ==
    IF path = 0 THEN [value |-> "malformed", repoHeap |-> heap, repoList |-> list,
                      defaultRepo |-> def]
    ELSE IF path \in DOMAIN list
    THEN [value |-> "present", repoHeap |-> heap, repoList |-> list, defaultRepo |-> def]
    ELSE LET repo  == Len(heap) + 1
             heap1 == Append(heap, [id |-> path, Default |-> FALSE])
             list1 == (path :> repo) @@ list
         IN  IF outcome \in {"cloneFails", "checkoutFails"}
             THEN [value |-> outcome, repoHeap |-> heap1, repoList |-> list1,
                   defaultRepo |-> def]
             ELSE IF Cardinality(DOMAIN list1) = 1
             THEN [value |-> "nil", repoList |-> list1,
                   repoHeap |-> setDefaultRepo(heap1, def, repo).repoHeap,
                   defaultRepo |-> repo]
             ELSE [value |-> "nil", repoHeap |-> heap1, repoList |-> list1,
                   defaultRepo |-> def]

\* The body of AddRepo(repoPath); path 0 is a path NewRepo rejects.  value is
\* the error returned, "nil" for none.
AddRepo(heap, list, def, path, outcome) ==
    IF path = 0 THEN [value |-> "malformed", repoHeap |-> heap, repoList |-> list,
                      defaultRepo |-> def]
    ELSE IF path \in DOMAIN list
    THEN [value |-> "present", repoHeap |-> heap, repoList |-> list, defaultRepo |-> def]
    ELSE IF outcome \in {"cloneFails", "checkoutFails"}
    THEN [value |-> outcome, repoHeap |-> heap, repoList |-> list, defaultRepo |-> def]
    ELSE LET repo  == Len(heap) + 1
             heap1 == Append(heap, [id |-> path, Default |-> FALSE])
             list1 == (path :> repo) @@ list
         IN  IF Cardinality(DOMAIN list1) = 1
             THEN [value |-> "nil", repoList |-> list1,
                   repoHeap |-> setDefaultRepo(heap1, def, repo).repoHeap,
                   defaultRepo |-> repo]
             ELSE [value |-> "nil", repoHeap |-> heap1, repoList |-> list1,
                   defaultRepo |-> def]

\* The body of RemoveRepoByIndex(index)
RemoveRepoByIndex(heap, list, def, index) ==
    LET keys == GetOrderedRepolistKeys(list)
    IN  IF index + 1 > Len(keys)
        THEN [value |-> "false", repoHeap |-> heap, repoList |-> list, defaultRepo |-> def]
        ELSE LET repoName   == keys[index + 1]
                 wasDefault == heap[list[repoName]].Default
                 list1      == [k \in DOMAIN list \ {repoName} |-> list[k]]
             IN  IF wasDefault /\ DOMAIN list1 # {}
                 THEN LET top == list1[GetOrderedRepolistKeys(list1)[1]]
                      IN  [value |-> "true", repoList |-> list1,
                           repoHeap |-> setDefaultRepo(heap, def, top).repoHeap,
                           defaultRepo |-> top]
                 ELSE [value |-> "true", repoHeap |-> heap, repoList |-> list1,
                       defaultRepo |-> def]

\* manager.mutex.Lock() at the start of AddRepo; the caller comes from
\* outside or from EnsureReposPresent
AddRepoLock(c, path) ==
    /\ ~managerCrashed
    /\ repoCall[c] \in {NoCall, [op |-> "EnsureReposPresent", arg |-> path]}
    /\ managerMutex = "free"
    /\ managerMutex' = c
    /\ repoCall' = [repoCall EXCEPT ![c] = [op |-> "AddRepo", arg |-> path]]
    /\ UNCHANGED <<repoHeap, repoList, defaultRepo, repoResult, managerCrashed>>
    /\ UNCHANGED nonRepoVars

\* AddRepo runs and returns; the deferred Unlock releases the mutex
AddRepoReturn(c, outcome) ==
    /\ ~managerCrashed
    /\ repoCall[c].op = "AddRepo"
    /\ managerMutex = c
    /\ LET r == AddRepo(repoHeap, repoList, defaultRepo, repoCall[c].arg, outcome)
       IN  /\ Len(r.repoHeap) <= MaxRepoObjects
           /\ repoHeap' = r.repoHeap
           /\ repoList' = r.repoList
           /\ defaultRepo' = r.defaultRepo
           /\ repoResult' = [caller |-> c, op |-> "AddRepo", value |-> r.value]
    /\ managerMutex' = "free"
    /\ repoCall' = [repoCall EXCEPT ![c] = NoCall]
    /\ UNCHANGED managerCrashed
    /\ UNCHANGED nonRepoVars

\* manager.mutex.Lock() at the start of RemoveRepoByIndex
RemoveRepoLock(c, index) ==
    /\ ~managerCrashed
    /\ repoCall[c] = NoCall
    /\ managerMutex = "free"
    /\ managerMutex' = c
    /\ repoCall' = [repoCall EXCEPT ![c] = [op |-> "RemoveRepoByIndex", arg |-> index]]
    /\ UNCHANGED <<repoHeap, repoList, defaultRepo, repoResult, managerCrashed>>
    /\ UNCHANGED nonRepoVars

\* RemoveRepoByIndex runs and returns; the deferred Unlock releases the mutex
RemoveRepoReturn(c) ==
    /\ ~managerCrashed
    /\ repoCall[c].op = "RemoveRepoByIndex"
    /\ managerMutex = c
    /\ LET r == RemoveRepoByIndex(repoHeap, repoList, defaultRepo, repoCall[c].arg)
       IN  /\ repoHeap' = r.repoHeap
           /\ repoList' = r.repoList
           /\ defaultRepo' = r.defaultRepo
           /\ repoResult' = [caller |-> c, op |-> "RemoveRepoByIndex", value |-> r.value]
    /\ managerMutex' = "free"
    /\ repoCall' = [repoCall EXCEPT ![c] = NoCall]
    /\ UNCHANGED managerCrashed
    /\ UNCHANGED nonRepoVars

\* The body shared by UpdateDefaultRepoByIndex and UpdateDefaultRepo once
\* the repo was looked up (0 = nil)
UpdateDefault(heap, def, newDefaultRepo) ==
    IF newDefaultRepo = 0
    THEN [value |-> "notFound", repoHeap |-> heap, defaultRepo |-> def]
    ELSE IF newDefaultRepo = def
    THEN [value |-> "alreadyDefault", repoHeap |-> heap, defaultRepo |-> def]
    ELSE [value |-> "nil", repoHeap |-> setDefaultRepo(heap, def, newDefaultRepo).repoHeap,
          defaultRepo |-> newDefaultRepo]

\* UpdateDefaultRepoByIndex(index): no Lock is taken.  An index past the
\* end of the keys is an index out of range: the call panics.
UpdateDefaultRepoByIndex(c, index) ==
    /\ ~managerCrashed
    /\ repoCall[c] = NoCall
    /\ LET keys == GetOrderedRepolistKeys(repoList)
       IN  IF index + 1 > Len(keys)
           THEN /\ managerCrashed' = TRUE
                /\ UNCHANGED <<repoHeap, defaultRepo, repoResult>>
           ELSE LET r == UpdateDefault(repoHeap, defaultRepo, repoList[keys[index + 1]])
                IN  /\ repoHeap' = r.repoHeap
                    /\ defaultRepo' = r.defaultRepo
                    /\ repoResult' = [caller |-> c, op |-> "UpdateDefaultRepoByIndex",
                                    value |-> r.value]
                    /\ UNCHANGED managerCrashed
    /\ UNCHANGED <<repoList, managerMutex, repoCall>>
    /\ UNCHANGED nonRepoVars

\* UpdateDefaultRepo(repoPath): no Lock is taken
UpdateDefaultRepo(c, path) ==
    /\ ~managerCrashed
    /\ repoCall[c] = NoCall
    /\ LET r == UpdateDefault(repoHeap, defaultRepo,
                              IF path \in DOMAIN repoList THEN repoList[path] ELSE 0)
       IN  /\ repoHeap' = r.repoHeap
           /\ defaultRepo' = r.defaultRepo
           /\ repoResult' = [caller |-> c, op |-> "UpdateDefaultRepo", value |-> r.value]
    /\ UNCHANGED <<repoList, managerMutex, repoCall, managerCrashed>>
    /\ UNCHANGED nonRepoVars

\* EnsureReposPresent for one task class of repository path: the lookup in
\* repoList is made without the mutex; an absent repo is then added through
\* AddRepo, a present one is checked out when its revision differs.
EnsureReposPresent(c, path, checkoutOk) ==
    /\ ~managerCrashed
    /\ repoCall[c] = NoCall
    /\ IF path = 0
       THEN /\ repoResult' = [caller |-> c, op |-> "EnsureReposPresent",
                            value |-> "malformed"]
            /\ UNCHANGED repoCall
       ELSE IF path \notin DOMAIN repoList
       THEN /\ repoCall' = [repoCall EXCEPT ![c] =
                               [op |-> "EnsureReposPresent", arg |-> path]]
            /\ UNCHANGED repoResult
       ELSE /\ repoResult' = [caller |-> c, op |-> "EnsureReposPresent",
                            value |-> IF checkoutOk THEN "nil" ELSE "checkoutFails"]
            /\ UNCHANGED repoCall
    /\ UNCHANGED <<repoHeap, repoList, defaultRepo, managerMutex, managerCrashed>>
    /\ UNCHANGED nonRepoVars

NextRepos ==
    \/ \E c \in Callers, path \in RepoIds \cup {0} : AddRepoLock(c, path)
    \/ \E c \in Callers, outcome \in CloneOutcomes : AddRepoReturn(c, outcome)
    \/ \E c \in Callers, index \in 0..MaxRepos : RemoveRepoLock(c, index)
    \/ \E c \in Callers : RemoveRepoReturn(c)
    \/ \E c \in Callers, index \in 0..MaxRepos : UpdateDefaultRepoByIndex(c, index)
    \/ \E c \in Callers, path \in RepoIds \cup {0} : UpdateDefaultRepo(c, path)
    \/ \E c \in Callers, path \in RepoIds \cup {0}, checkoutOk \in BOOLEAN :
          EnsureReposPresent(c, path, checkoutOk)

SpecRepos == Init /\ [][NextRepos]_vars

\* ================================================ the default repository
\* C36: once a default repo has been set, defaultRepo is a repo that is in
\* repoList, and it is the one repo of repoList flagged Default.
C36_DefaultRepoInList ==
    defaultRepo # 0 =>
        /\ \E id \in DOMAIN repoList : repoList[id] = defaultRepo
        /\ \A id \in DOMAIN repoList :
              repoHeap[repoList[id]].Default <=> (repoList[id] = defaultRepo)

\* ================================================ the manager mutex
\* C37: repoList and defaultRepo change only in a step of the caller that
\* holds the manager mutex, the step that ends its locked call.
C37_ChangeUnderMutex ==
    [][<<repoList, defaultRepo>>' # <<repoList, defaultRepo>> =>
          (managerMutex # "free" /\ managerMutex' = "free")]_vars

\* ================================================ a failed AddRepo
AddRepoErrors == {"malformed", "present", "cloneFails", "checkoutFails"}

\* C38: an AddRepo that returns an error (the path is malformed, the repo
\* is present already, the clone fails, or the checkout of an already cloned
\* directory fails) leaves repoList, defaultRepo and the Default flags as
\* they were.
C38_FailedAddRepoChangesNothing ==
    [][\A c \in Callers :
          (/\ repoCall[c].op = "AddRepo"
           /\ repoCall'[c] = NoCall
           /\ repoResult'.value \in AddRepoErrors)
          => UNCHANGED <<repoList, defaultRepo, repoHeap>>]_vars

C38_Witness ==
    /\ repoResult.op = "AddRepo"
    /\ repoResult.value = "checkoutFails"
    /\ repoCall[repoResult.caller] = NoCall
    /\ managerMutex = "free"

====
